------------------------------ MODULE PackFile ------------------------------
(***************************************************************************)
(* What the packer and the unpacker agree on (pack.h), scaled down: a byte   *)
(* is a number below BYTE, and the coder's registers are four of them.      *)
(***************************************************************************)
EXTENDS Integers, Sequences, SequencesExt, FiniteSetsExt, Functions

CONSTANTS BYTE,            \* values of a byte, a power of two
          BITS,            \* bits of one
          PBITS,           \* bits of a probability
          PMOVE,           \* how fast one adapts
          MINLEN, LENBITS, \* the shortest match, and the bits of a length above it
          SLOTBITS         \* bits of a distance's slot

ASSUME PackConstants == BYTE = 2 ^ BITS /\ PBITS > PMOVE /\ MINLEN > 0

PTOP == 2 ^ PBITS
MAXLEN == MINLEN + 2 ^ LENBITS - 1
RTOP == BYTE ^ 3           \* 1 << 24
RMAX == BYTE ^ 4           \* one more than the registers hold

\* The probability of each decision being 0: the two flags by what came before,
\* and a tree of decisions for a length, a slot, and a literal after a byte.
Context(b) == b \div (BYTE \div 2)
Nodes(n) == 1 .. 2 ^ n - 1
Decisions ==
    ({"match", "rep"} \X {0, 1}) \cup ({"len"} \X Nodes(LENBITS)) \cup ({"slot"} \X Nodes(SLOTBITS))
        \cup ({"lit0", "lit1"} \X Nodes(BITS))
Literal(prev) == IF Context(prev) = 0 THEN "lit0" ELSE "lit1"
Fresh == [d \in Decisions |-> PTOP \div 2]
Adapted(p, bit) == IF bit = 0 THEN p + ((PTOP - p) \div 2 ^ PMOVE) ELSE p - (p \div 2 ^ PMOVE)

\* A distance's slot: the number of its bits, less one.
Slot(d) == CHOOSE s \in 0 .. d : 2 ^ s <= d /\ d < 2 ^ (s + 1)
Bit(v, i) == (v \div 2 ^ i) % 2

At(s, i) == s[i + 1]

-----------------------------------------------------------------------------
(***************************************************************************)
(* The range decoder and the decoding of a payload (unpack.c).              *)
(***************************************************************************)

RcByte(r) ==
    IF r.in = <<>> THEN [r EXCEPT !.overrun = TRUE, !.byte = 0]
    ELSE [r EXCEPT !.in = Tail(@), !.byte = Head(r.in)]
RcTake(r) == LET s == RcByte(r) IN [s EXCEPT !.code = ((@ % RTOP) * BYTE) + s.byte]
RcInit(in) ==
    LET r == [in |-> in, byte |-> 0, range |-> RMAX - 1, code |-> 0, overrun |-> FALSE,
              p |-> Fresh, got |-> 0]
    IN  RcTake(RcTake(RcTake(RcTake(RcByte(r)))))
RECURSIVE RcNorm(_)
RcNorm(r) == IF r.range >= RTOP THEN r ELSE RcNorm(RcTake([r EXCEPT !.range = @ * BYTE]))

\* Each leaves in GOT what it read.
RcBit(r, d) ==
    LET bound == (r.range \div PTOP) * r.p[d]
        bit == IF r.code < bound THEN 0 ELSE 1
    IN  [RcNorm([r EXCEPT !.range = IF bit = 0 THEN bound ELSE @ - bound,
                          !.code = IF bit = 0 THEN @ ELSE @ - bound,
                          !.p[d] = Adapted(@, bit)]) EXCEPT !.got = bit]
RcTree(r, tree, n) ==
    LET down(s, i) == LET t == RcBit(s, <<tree, s.got>>) IN [t EXCEPT !.got = 2 * s.got + t.got]
        s == FoldLeft(down, [r EXCEPT !.got = 1], [i \in 1 .. n |-> i])
    IN  [s EXCEPT !.got = @ - 2 ^ n]
RcDirect(r, n) ==
    LET half(s, i) ==
            LET h == s.range \div 2
                b == IF s.code >= h THEN 1 ELSE 0
            IN  [RcNorm([s EXCEPT !.range = h, !.code = @ - b * h]) EXCEPT !.got = 2 * s.got + b]
    IN  FoldLeft(half, [r EXCEPT !.got = 0], [i \in 1 .. n |-> i])

Corrupt == [ok |-> FALSE, out |-> <<>>]

\* The bytes of a match repeat as they are written.
CopyMatch(out, d, n) == FoldLeft(LAMBDA o, i : Append(o, o[Len(o) + 1 - d]), out, [i \in 1 .. n |-> i])

RECURSIVE DecodeFrom(_, _, _, _, _)
DecodeFrom(r, out, lastd, state, rawlen) ==
    LET pos == Len(out)
        prev == IF pos > 0 THEN At(out, pos - 1) ELSE 0
        literal(lit) == IF lit.overrun THEN Corrupt
                        ELSE DecodeFrom(lit, Append(out, lit.got), lastd, 0, rawlen)
        copy(t, d, len) == IF d = 0 \/ d > pos \/ len > rawlen - pos \/ t.overrun THEN Corrupt
                           ELSE DecodeFrom(t, CopyMatch(out, d, len), d, 1, rawlen)
        low(t, slot, len) == copy(t, 2 ^ slot + t.got, len)
        new(t, len) == low(RcDirect(t, t.got), t.got, len)
        rep(t, len) == IF t.got = 1 THEN copy(t, lastd, len)
                       ELSE new(RcTree(t, "slot", SLOTBITS), len)
        match(t) == rep(RcBit(t, <<"rep", state>>), t.got + MINLEN)
        flag(t) == IF t.got = 0 THEN literal(RcTree(t, Literal(prev), BITS))
                   ELSE match(RcTree(t, "len", LENBITS))
    IN  IF pos >= rawlen THEN [ok |-> TRUE, out |-> out] ELSE flag(RcBit(r, <<"match", state>>))

\* What was coded as differences is summed, in the ranges the trailer names.
DeltaUndo(out, ranges) ==
    LET sum(o, rg) == FoldLeft(LAMBDA q, j : [q EXCEPT ![rg.off + j + 1] = (@ + q[rg.off + j]) % BYTE],
                               o, [j \in 1 .. rg.len - 1 |-> j])
    IN  FoldLeft(sum, out, ranges)

\* Of the payload; CRC is a sum that tells any two images apart.
PackDecode(in, info) ==
    LET got == DecodeFrom(RcInit(in), <<>>, 0, 0, info.rawlen)
        out == DeltaUndo(got.out, info.delta)
    IN  IF ~got.ok \/ out # info.crc THEN Corrupt ELSE [ok |-> TRUE, out |-> out]

-----------------------------------------------------------------------------
(***************************************************************************)
(* The packer's parses and its range encoder (pack.c).                      *)
(***************************************************************************)

CONSTANTS Hashed,          \* bytes a hash is of, one more than MINLEN
          HSIZE            \* values of a hash

\* The encoder: LOW may have carried, and CACHE and what follows wait for that.
EncInit == [out |-> <<>>, low |-> 0, range |-> RMAX - 1, cache |-> 0, cachesize |-> 1, p |-> Fresh]

\* A mistake it could have made: a carry goes no further than the cache.
ShiftNoRipple(e) ==
    LET settled == e.low < (BYTE - 1) * RTOP \/ e.low >= RMAX
        carry == e.low \div RMAX
        waited == [i \in 1 .. e.cachesize |-> IF i = 1 THEN (e.cache + carry) % BYTE ELSE BYTE - 1]
    IN  [e EXCEPT !.out = IF settled THEN @ \o waited ELSE @,
                  !.cache = IF settled THEN (e.low \div RTOP) % BYTE ELSE @,
                  !.cachesize = IF settled THEN 1 ELSE @ + 1,
                  !.low = (@ % RTOP) * BYTE]

EncShift(e) ==
    LET settled == e.low < (BYTE - 1) * RTOP \/ e.low >= RMAX
        carry == e.low \div RMAX
        waited == [i \in 1 .. e.cachesize |-> ((IF i = 1 THEN e.cache ELSE BYTE - 1) + carry) % BYTE]
    IN  [e EXCEPT !.out = IF settled THEN @ \o waited ELSE @,
                  !.cache = IF settled THEN (e.low \div RTOP) % BYTE ELSE @,
                  !.cachesize = IF settled THEN 1 ELSE @ + 1,
                  !.low = (@ % RTOP) * BYTE]
RECURSIVE EncNorm(_)
EncNorm(e) == IF e.range >= RTOP THEN e ELSE EncNorm(EncShift([e EXCEPT !.range = @ * BYTE]))

EncBit(e, d, bit) ==
    LET bound == (e.range \div PTOP) * e.p[d]
    IN  EncNorm([e EXCEPT !.range = IF bit = 0 THEN bound ELSE @ - bound,
                          !.low = IF bit = 0 THEN @ ELSE @ + bound,
                          !.p[d] = Adapted(@, bit)])

\* Decisions down a tree, and bits that are none.
EncTree(e, tree, n, sym) ==
    FoldLeft(LAMBDA f, i : EncBit(f, <<tree, 2 ^ (i - 1) + (sym \div 2 ^ (n - i + 1))>>, Bit(sym, n - i)),
             e, [i \in 1 .. n |-> i])
EncDirect(e, v, n) ==
    FoldLeft(LAMBDA f, i : LET half == f.range \div 2
                           IN  EncNorm([f EXCEPT !.range = half, !.low = @ + half * Bit(v, n - i)]),
             e, [i \in 1 .. n |-> i])
EncFlush(e) == FoldLeft(LAMBDA f, i : EncShift(f), e, <<1, 2, 3, 4, 5>>)

\* One token; a literal is a match of no length.
EmitToken(data, s, tok) ==
    LET prev == IF s.pos > 0 THEN At(data, s.pos - 1) ELSE 0
        slot == Slot(tok.dist)
        new(e) == EncDirect(EncTree(e, "slot", SLOTBITS, slot), tok.dist % 2 ^ slot, slot)
        match(e) == IF tok.dist = s.lastd THEN EncBit(e, <<"rep", s.state>>, 1)
                    ELSE new(EncBit(e, <<"rep", s.state>>, 0))
    IN  IF tok.len = 0
        THEN [e |-> EncTree(EncBit(s.e, <<"match", s.state>>, 0), Literal(prev), BITS, At(data, s.pos)),
              pos |-> s.pos + 1, lastd |-> s.lastd, state |-> 0]
        ELSE [e |-> match(EncTree(EncBit(s.e, <<"match", s.state>>, 1), "len", LENBITS, tok.len - MINLEN)),
              pos |-> s.pos + tok.len, lastd |-> tok.dist, state |-> 1]

\* What is emitted, and the probabilities at the end, which price the next parse.
Emit(data, toks) ==
    LET flushed(s) == [out |-> EncFlush(s.e).out, p |-> s.e.p]
    IN  flushed(FoldLeft(LAMBDA t, tok : EmitToken(data, t, tok),
                         [e |-> EncInit, pos |-> 0, lastd |-> 0, state |-> 0], toks))

---------------------------------------------------------------------------
(* Matches *)

\* The hash of what is at a place; PAST is what lies after the data.
Hash(data, past, at) ==
    SumSet({IF at + i < Len(data) THEN At(data, at + i) * (i + 1) ELSE past : i \in 0 .. Hashed - 1})
        % HSIZE
\* The last DEPTH places hashed alike, of those in the table: none so near the end
\* that a hash would run past it.
Chain(data, past, at, depth) ==
    LET alike == {c \in 0 .. at - 1 : c + Hashed <= Len(data)
                                      /\ Hash(data, past, c) = Hash(data, past, at)}
    IN  {c \in alike : Cardinality({b \in alike : b > c}) < depth}
Run(data, from, at) ==
    LET most == IF Len(data) - at < MAXLEN THEN Len(data) - at ELSE MAXLEN
    IN  Max({n \in 0 .. most : \A i \in 0 .. n - 1 : At(data, from + i) = At(data, at + i)})
\* The shortest distance for each length that can be had there.
LongestMatch(data, past, at, depth) ==
    LET chain == IF at + MINLEN > Len(data) THEN {} ELSE Chain(data, past, at, depth)
        looked(run) == {c \in DOMAIN run : \A b \in DOMAIN run : run[b] = MAXLEN => c >= b}
        nearest(run, seen) ==
            [n \in MINLEN .. Max({0} \cup {run[c] : c \in seen}) |->
                Min({at - c : c \in {b \in seen : run[b] >= n}})]
        among(run) == nearest(run, looked(run))
    IN  among([c \in chain |-> Run(data, c, at)])

RECURSIVE ParseGreedy(_, _, _, _)
ParseGreedy(data, past, depth, at) ==
    LET token(found, n) ==
            IF n >= MINLEN
            THEN <<[len |-> n, dist |-> found[n]]>> \o ParseGreedy(data, past, depth, at + n)
            ELSE <<[len |-> 0, dist |-> 0]>> \o ParseGreedy(data, past, depth, at + 1)
        best(found) == token(found, Max({0} \cup DOMAIN found))
    IN  IF at >= Len(data) THEN <<>> ELSE best(LongestMatch(data, past, at, depth))

\* The price of a probability, and of the decisions for a symbol.
CONSTANT Cost(_)
Price(p, d, bit) == IF bit = 1 THEN Cost(PTOP - p[d]) ELSE Cost(p[d])
TreePrice(p, tree, n, sym) ==
    SumFunction([i \in 1 .. n |-> Price(p, <<tree, 2 ^ (i - 1) + (sym \div 2 ^ (n - i + 1))>>, Bit(sym, n - i))])

\* The cheapest ways known to each place and state, and by what token from where.
Unreached == -1
Better(best, to, c, how) ==
    IF best[to].cost # Unreached /\ best[to].cost <= c THEN best
    ELSE [best EXCEPT ![to] = [cost |-> c, len |-> how.len, dist |-> how.dist, from |-> how.from]]
Relax(data, past, depth, p, best, at) ==
    LET prev == IF at > 0 THEN At(data, at - 1) ELSE 0
        literal(b, s) ==
            Better(b, <<at + 1, 0>>,
                   b[<<at, s>>].cost + Price(p, <<"match", s>>, 0)
                       + TreePrice(p, Literal(prev), BITS, At(data, at)),
                   [len |-> 0, dist |-> 0, from |-> s])
        match(b, s, n, d) ==
            Better(b, <<at + n, 1>>,
                   b[<<at, s>>].cost + Price(p, <<"match", s>>, 1) + TreePrice(p, "len", LENBITS, n - MINLEN)
                       + Price(p, <<"rep", s>>, 0) + TreePrice(p, "slot", SLOTBITS, Slot(d))
                       + Slot(d) * Cost(PTOP \div 2),
                   [len |-> n, dist |-> d, from |-> s])
        fromState(b, s, found) ==
            IF b[<<at, s>>].cost = Unreached THEN b
            ELSE FoldLeft(LAMBDA c, n : match(c, s, n, found[n]), literal(b, s),
                          SetToSortSeq(DOMAIN found, LAMBDA x, y : x < y))
        both(found) == FoldLeft(LAMBDA b, s : fromState(b, s, found), best, <<0, 1>>)
    IN  both(LongestMatch(data, past, at, depth))
RECURSIVE WalkBack(_, _, _)
WalkBack(best, at, s) ==
    LET b == best[<<at, s>>]
    IN  IF at = 0 THEN <<>>
        ELSE WalkBack(best, at - (IF b.len = 0 THEN 1 ELSE b.len), b.from)
                 \o <<[len |-> b.len, dist |-> b.dist]>>
ParseOptimal(data, past, depth, p) ==
    LET start == [t \in (0 .. Len(data)) \X {0, 1} |->
                     [cost |-> IF t = <<0, 0>> THEN 0 ELSE Unreached, len |-> 0, dist |-> 0, from |-> 0]]
        ends(lit, mat) == IF mat = Unreached \/ (lit # Unreached /\ lit <= mat) THEN 0 ELSE 1
        tokens(best) == WalkBack(best, Len(data), ends(best[<<Len(data), 0>>].cost,
                                                       best[<<Len(data), 1>>].cost))
    IN  tokens(FoldLeft(LAMBDA b, i : Relax(data, past, depth, p, b, i - 1), start,
                        [i \in 1 .. Len(data) |-> i]))

-----------------------------------------------------------------------------
(***************************************************************************)
(* A module packed and put after the emulator (pack.c, unity_pack.c), and    *)
(* the emulator looking for what it carries (unpack.c, ne_file.c).  A file   *)
(* is a sequence of cells: a byte each, but for a trailer's fixed part and   *)
(* each of its ranges.                                                      *)
(***************************************************************************)

CONSTANTS Emulators,       \* what may be in front: sequences of cells
          Modules,         \* the modules packed
          DEPTH,           \* how many places a match is looked for at
          ROUNDS,          \* parses after the first
          MAXDELTA,        \* ranges in a trailer
          RIFF, MINRIFF,   \* the byte that marks a wave, and the shortest one
          SLACK,           \* padding before a certificate
          MZ, NE           \* the bytes that mark a module

VARIABLES raw, depthOf,    \* the module packed, and how
          work,            \* it, with its waves as differences; and the ranges
          toks, best,      \* the last parse, and the shortest payload so far
          probs,           \* the probabilities after the last
          rounds,
          image,           \* the file: its cells, and where a certificate starts, or 0
          opened,          \* what the emulator found in it: <<>> or one module
          phase

packVars == <<raw, depthOf, work, toks, best, probs, rounds, image, opened, phase>>

Byte(v) == [k |-> "byte", v |-> v]
NoInfo == [rawlen |-> 0, complen |-> 0, crc |-> <<>>, version |-> 0, delta |-> <<>>]
Trailer(info) == [k |-> "magic", info |-> info]
Cells(info) == <<Trailer(info)>> \o [i \in 1 .. Len(info.delta) |-> [k |-> "range", v |-> info.delta[i]]]

\* The waves, in order: at one's mark, its length; none within another.
RECURSIVE FindRiff(_, _, _)
FindRiff(d, at, found) ==
    LET size == At(d, at + 1) + 2
    IN  IF at + 2 > Len(d) \/ Len(found) = MAXDELTA THEN found
        ELSE IF At(d, at) = RIFF /\ size >= MINRIFF /\ size <= Len(d) - at
        THEN FindRiff(d, at + size, Append(found, [off |-> at, len |-> size]))
        ELSE FindRiff(d, at + 1, found)
DeltaApply(d, ranges) ==
    [i \in DOMAIN d |->
        IF \E rg \in Range(ranges) : i - 1 > rg.off /\ i - 1 < rg.off + rg.len
        THEN (d[i] - d[i - 1]) % BYTE ELSE d[i]]

\* Looking back from the end, or from the certificate and its padding, for a
\* trailer that ends there; what only looks like one is passed over.
Ends(file, at) ==
    LET end == IF file.cert > 0 THEN file.cert ELSE Len(file.cells)
        slack == IF file.cert > 0 THEN SLACK ELSE 0
        cell == At(file.cells, at)
        tlen == 1 + Len(cell.info.delta)
    IN  /\ at < end /\ cell.k = "magic"
        /\ Len(cell.info.delta) <= MAXDELTA
        /\ at + tlen <= end /\ end - (at + tlen) <= slack
        /\ cell.info.complen <= at /\ cell.info.rawlen > 0 /\ cell.info.complen > 0
PackFind(file) ==
    LET ends == {at \in 0 .. Len(file.cells) - 1 : Ends(file, at)}
        at == Max(ends)
        info == At(file.cells, at).info
    IN  IF \/ ends = {} \/ info.version # 1
           \/ \E rg \in Range(info.delta) : rg.off > info.rawlen \/ rg.len > info.rawlen - rg.off
        THEN [ok |-> FALSE, off |-> 0, info |-> NoInfo]
        ELSE [ok |-> TRUE, off |-> at - info.complen, info |-> info]

Payload(file, found) ==
    [i \in 1 .. found.info.complen |->
        LET c == At(file.cells, found.off + i - 1) IN IF c.k = "byte" THEN c.v ELSE 0]

\* Does a module start there: its mark, and where that says, the other.
LooksLikeNe(cells, at) ==
    LET v(i) == IF At(cells, i).k = "byte" THEN At(cells, i).v ELSE BYTE
    IN  /\ at + 2 <= Len(cells) /\ v(at) = MZ
        /\ v(at + 1) >= 2 /\ v(at + 1) < Len(cells) - at /\ v(at + v(at + 1)) = NE

\* The module an executable carries: packed, or as it is, after its first byte.
ImageOpened(file) ==
    LET plain == {at \in 1 .. Len(file.cells) - 1 : LooksLikeNe(file.cells, at)}
        asIs(from) == <<[i \in 1 .. Len(file.cells) - from |->
                            LET c == At(file.cells, from + i - 1) IN IF c.k = "byte" THEN c.v ELSE 0]>>
        unpacked(got) == IF got.ok THEN <<got.out>> ELSE <<>>
        by(found) == IF found.ok THEN unpacked(PackDecode(Payload(file, found), found.info))
                     ELSE IF plain = {} THEN <<>> ELSE asIs(Min(plain))
    IN  by(PackFind(file))

---------------------------------------------------------------------------

Greedy(past) ==
    /\ phase = "read"
    /\ toks' = ParseGreedy(work.data, past, depthOf, 0)
    /\ \E e \in {Emit(work.data, toks')} : best' = e.out /\ probs' = e.p
    /\ phase' = "parsed"
    /\ UNCHANGED <<raw, depthOf, work, rounds, image, opened>>

\* Each further parse is priced by the one before; the shortest payload is kept.
Optimal(past) ==
    /\ phase = "parsed" /\ rounds < ROUNDS /\ rounds' = rounds + 1
    /\ toks' = ParseOptimal(work.data, past, depthOf, probs)
    /\ \E e \in {Emit(work.data, toks')} :
          probs' = e.p /\ best' = IF Len(e.out) < Len(best) THEN e.out ELSE best
    /\ UNCHANGED <<raw, depthOf, work, image, opened, phase>>

Info == [rawlen |-> Len(raw), complen |-> Len(best), crc |-> raw, version |-> 1, delta |-> work.ranges]
Packed(front) == [cells |-> front \o [i \in DOMAIN best |-> Byte(best[i])] \o Cells(Info), cert |-> 0]

\* The packer opens its own output before it writes any.
AppendPacked ==
    /\ phase = "parsed" /\ rounds = ROUNDS
    /\ IF ImageOpened(Packed(<<>>)) = <<raw>>
       THEN \E front \in Emulators : image' = Packed(front) /\ phase' = "packed"
       ELSE image' = image /\ phase' = "refused"
    /\ UNCHANGED <<raw, depthOf, work, toks, best, probs, rounds, opened>>

\* Or the module was appended as it is.
AppendPlain ==
    /\ phase = "read"
    /\ \E front \in Emulators \ {<<>>} :
          image' = [cells |-> front \o [i \in DOMAIN raw |-> Byte(raw[i])], cert |-> 0]
    /\ phase' = "plain"
    /\ UNCHANGED <<raw, depthOf, work, toks, best, probs, rounds, opened>>

\* Signing pads the file and puts a certificate after it.
Sign ==
    /\ phase = "packed" /\ image.cert = 0
    /\ \E pad \in 0 .. SLACK :
          LET cells == image.cells \o [i \in 1 .. pad |-> Byte(0)]
          IN  image' = [cells |-> cells \o <<Byte(1), Byte(2)>>, cert |-> Len(cells)]
    /\ UNCHANGED <<raw, depthOf, work, toks, best, probs, rounds, opened, phase>>

\* The file comes with a byte of its payload changed.
Damage ==
    /\ phase = "packed"
    /\ \E i \in 0 .. Len(best) - 1 :
          LET at == PackFind(image).off + i + 1
          IN  image' = [image EXCEPT !.cells[at].v = (@ + 1) % BYTE]
    /\ phase' = "damaged"
    /\ UNCHANGED <<raw, depthOf, work, toks, best, probs, rounds, opened>>

OpenAppended ==
    /\ phase \in {"packed", "plain", "damaged"}
    /\ opened' = ImageOpened(image)
    /\ phase' = CASE phase = "packed" -> "opened" [] phase = "plain" -> "openedPlain"
                  [] phase = "damaged" -> "openedDamaged"
    /\ UNCHANGED <<raw, depthOf, work, toks, best, probs, rounds, image>>

PackInit ==
    /\ raw \in Modules /\ depthOf \in DEPTH
    /\ work = LET ranges == FindRiff(raw, 0, <<>>)
              IN  [data |-> DeltaApply(raw, ranges), ranges |-> ranges]
    /\ toks = <<>> /\ best = <<>> /\ probs = Fresh /\ rounds = 0
    /\ image = [cells |-> <<>>, cert |-> 0] /\ opened = <<>> /\ phase = "read"

PackNext ==
    \/ \E past \in {0, 1} : Greedy(past) \/ Optimal(past)
    \/ AppendPacked \/ AppendPlain \/ Sign \/ Damage \/ OpenAppended

---------------------------------------------------------------------------

\* The tokens of a parse, written out one after the other, are the data.
Written(t) == FoldLeft(LAMBDA o, tok : IF tok.len = 0 THEN Append(o, work.data[Len(o) + 1])
                                       ELSE CopyMatch(o, tok.dist, tok.len), <<>>, t)

\* Whatever is packed comes back out of the emulator that carries it, signed or
\* not, and no parse was worse than none; what was damaged comes back right or not.
ComesBackOut ==
    /\ phase # "read" /\ phase # "plain" /\ phase # "openedPlain" => Written(toks) = work.data
    /\ phase # "refused"
    /\ phase \in {"opened", "openedPlain"} => opened = <<raw>>
    /\ phase = "openedDamaged" => opened \in {<<>>, <<raw>>}

=============================================================================
