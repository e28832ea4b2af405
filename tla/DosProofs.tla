----------------------------- MODULE DosProofs -----------------------------
(***************************************************************************)
(* Proofs about the guest's file calls: the directory in memory stays      *)
(* whole, and what the guest sees of it is the directory of DirSpec.       *)
(*                                                                         *)
(* Most lemmas are about one record of files, g, and not about a state: an *)
(* operation is a function of such records.                                *)
(***************************************************************************)
EXTENDS DosFiles, FiniteSetTheorems, SequenceTheorems, TLAPS

Names == Seq(STRING)

Slots == [name : Names, isdir : BOOLEAN, written : BOOLEAN,
          borrowed : Nat, data : Nat, len : Nat, cap : Nat]

Openings == [ent : Nat, access : {"READ", "WRITE", "RDWR"}, pos : Nat]

Stores == [ents : Seq(Slots), opens : [1 .. MAX_OPEN -> Openings],
           mem : [1 .. ArenaEnd -> Octets], beg : ArenaStart .. ArenaEnd + 1]

Typed(g) == g \in Stores /\ Len(g.ents) <= MAX_ENTRIES

(* A file's bytes are its own, in the arena; or the caller's; or none.     *)
SlotSound(e, beg) ==
  /\ e.data # 0 =>
       /\ e.borrowed = 0 /\ ArenaStart <= e.data /\ e.data + e.cap <= beg
       /\ e.len <= e.cap /\ 1 <= e.cap
  /\ e.data = 0 => e.cap = 0 /\ (e.borrowed # 0 \/ e.len = 0)
  /\ e.borrowed # 0 => e.borrowed + e.len <= ArenaStart
  /\ e.name = <<>> => e = Blank
  /\ e.isdir => e.data = 0 /\ e.borrowed = 0

(* A file without the mark has the caller's bytes, all of them.            *)
MarkSound(e) ==
  e.name # <<>> /\ ~e.written /\ ~e.isdir =>
    /\ e.data = 0
    /\ \E given \in Inputs : \E k \in DOMAIN given :
         e.borrowed = given[k].at /\ e.len = given[k].len

SpansApart(e, f) ==
  e.data # 0 /\ f.data # 0 => e.data + e.cap <= f.data \/ f.data + f.cap <= e.data

Taken(g) == {g.ents[i].name : i \in Used(g)}

(* A name of two parts is in a directory there is.                         *)
Standing(g, name) == Len(name) > 1 => IsDir(g, Front(name))

NamesSound(g) ==
  /\ \A i, j \in Used(g) : g.ents[i].name = g.ents[j].name => i = j
  /\ \A i \in Used(g) : Standing(g, g.ents[i].name)

BytesSound(g) ==
  /\ \A i \in DOMAIN g.ents : SlotSound(g.ents[i], g.beg) /\ MarkSound(g.ents[i])
  /\ \A i, j \in DOMAIN g.ents : i # j => SpansApart(g.ents[i], g.ents[j])
  /\ \A a \in 1 .. ArenaStart - 1 : g.mem[a] = CallerMem[a]

FilesSound(g) == Typed(g) /\ NamesSound(g) /\ BytesSound(g)

(* An open handle is on a file.                                            *)
OpensSound(g) ==
  \A h \in 1 .. MAX_OPEN :
    g.opens[h].ent # 0 => g.opens[h].ent \in Used(g) /\ ~g.ents[g.opens[h].ent].isdir

Fds == [kind : {"FREE", "FILE", "MEM"}, fh : 0 .. MAX_OPEN, pos : 0 .. ImageLen]

(* One DOS handle to each open handle.                                     *)
FdsSound(g, table) ==
  /\ table \in [1 .. NFiles -> Fds]
  /\ \A fd \in 1 .. NFiles :
       table[fd].kind = "FILE" => table[fd].fh # 0 /\ g.opens[table[fd].fh].ent # 0
  /\ \A fd, other \in 1 .. NFiles :
       table[fd].kind = "FILE" /\ table[other].kind = "FILE"
         /\ table[fd].fh = table[other].fh => fd = other
  /\ \A h \in 1 .. MAX_OPEN :
       g.opens[h].ent # 0 =>
         \E fd \in 1 .. NFiles : table[fd].kind = "FILE" /\ table[fd].fh = h

AllSound(g, table) == FilesSound(g) /\ OpensSound(g) /\ FdsSound(g, table)

IInv == AllSound(fs, fds) /\ over \in BOOLEAN

-----------------------------------------------------------------------------
(* The least of a set of numbers, and the doublings of a capacity.         *)

(* What Least chooses.                                                     *)
LEMMA LeastIs ==
  ASSUME NEW S \in SUBSET Nat, S # {}
  PROVE  Least(S) \in S /\ Least(S) \in Nat /\ \A y \in S : Least(S) <= y
<1> DEFINE R == {ss \in Nat \X Nat : ss[1] < ss[2]}
<1>1. IsWellFoundedOn(R, Nat)
  BY NatLessThanWellFounded DEF OpToRel
<1>2. \A x, y \in Nat : <<y, x>> \in R <=> y < x
  OBVIOUS
<1> HIDE DEF R
<1>3. PICK x \in S : \A y \in S : ~(<<y, x>> \in R)
  BY <1>1, WFMin
<1>4. \A y \in S : y \in Nat /\ x \in Nat /\ ~(y < x)
  BY <1>2, <1>3
<1>5. \A y \in S : x <= y
  BY <1>4
<1> QED BY <1>3, <1>5 DEF Least

(* The doublings of a capacity are a function.                             *)
LEMMA DoublingsExist ==
  ASSUME NEW cap \in Nat, NEW need \in Nat
  PROVE  \E f : f = [k \in 0 .. need |-> IF k = 0 THEN cap ELSE 2 * f[k - 1]]
<1> DEFINE P(n) == \E f : f = [k \in 0 .. n |-> IF k = 0 THEN cap ELSE 2 * f[k - 1]]
           Bad == {n \in Nat : ~P(n)}
<1>1. P(0)
  <2> DEFINE f == [k \in 0 .. 0 |-> cap]
  <2>1. \A k \in 0 .. 0 : f[k] = IF k = 0 THEN cap ELSE 2 * f[k - 1]
    OBVIOUS
  <2>2. f = [k \in 0 .. 0 |-> IF k = 0 THEN cap ELSE 2 * f[k - 1]]
    BY <2>1
  <2> HIDE DEF f
  <2> QED BY <2>2
<1>2. ASSUME NEW n \in Nat, P(n)
      PROVE  P(n + 1)
  <2>1. PICK f : f = [k \in 0 .. n |-> IF k = 0 THEN cap ELSE 2 * f[k - 1]]
    BY <1>2
  <2> DEFINE g == [k \in 0 .. n + 1 |-> IF k <= n THEN f[k] ELSE 2 * f[n]]
  <2>2. \A k \in 0 .. n : f[k] = IF k = 0 THEN cap ELSE 2 * f[k - 1]
    BY <2>1
  <2>3. \A k \in 0 .. n + 1 : g[k] = IF k = 0 THEN cap ELSE 2 * g[k - 1]
    <3> SUFFICES ASSUME NEW k \in 0 .. n + 1
                 PROVE  g[k] = IF k = 0 THEN cap ELSE 2 * g[k - 1]
      OBVIOUS
    <3>1. CASE k = 0
      BY <2>2, <3>1
    <3>2. CASE k # 0 /\ k <= n
      <4>1. k \in 0 .. n /\ k - 1 \in 0 .. n /\ k - 1 \in 0 .. n + 1
        BY <3>2
      <4>2. g[k] = f[k] /\ g[k - 1] = f[k - 1]
        BY <4>1
      <4> QED BY <2>2, <3>2, <4>1, <4>2
    <3>3. CASE k # 0 /\ ~(k <= n)
      <4>1. k - 1 = n /\ k - 1 \in 0 .. n + 1
        BY <3>3
      <4>2. g[k] = 2 * f[n] /\ g[k - 1] = f[n]
        BY <3>3, <4>1
      <4> QED BY <3>3, <4>2
    <3> QED BY <3>1, <3>2, <3>3
  <2>4. g = [k \in 0 .. n + 1 |-> IF k = 0 THEN cap ELSE 2 * g[k - 1]]
    BY <2>3
  <2> HIDE DEF g
  <2> QED BY <2>4
<1> HIDE DEF P
<1>3. CASE Bad # {}
  <2>1. Least(Bad) \in Bad /\ \A y \in Bad : Least(Bad) <= y
    BY <1>3, LeastIs
  <2>2. PICK m \in Nat : m = Least(Bad) /\ ~P(m)
    BY <2>1
  <2>3. m # 0 /\ m - 1 \in Nat /\ ~(m <= m - 1)
    BY <1>1, <2>2
  <2>4. m - 1 \notin Bad
    BY <2>1, <2>2, <2>3
  <2>5. P(m - 1)
    BY <2>3, <2>4
  <2>6. P((m - 1) + 1)
    BY <1>2, <2>3, <2>5
  <2>7. (m - 1) + 1 = m
    BY <2>2
  <2> QED BY <2>2, <2>6, <2>7
<1>4. CASE Bad = {}
  <2>1. P(need)
    BY <1>4
  <2> QED BY <2>1 DEF P
<1> QED BY <1>3, <1>4

(* Room for what is needed, and no less than there was.                    *)
LEMMA DoubledIs ==
  ASSUME NEW cap \in Nat \ {0}, NEW need \in Nat
  PROVE  Doubled(cap, need) \in Nat /\ Doubled(cap, need) >= need
           /\ Doubled(cap, need) >= cap
<1> DEFINE times == CHOOSE f : f = [k \in 0 .. need |-> IF k = 0 THEN cap ELSE 2 * f[k - 1]]
           S == {c \in {times[k] : k \in 0 .. need} : c >= need}
<1>1. times = [k \in 0 .. need |-> IF k = 0 THEN cap ELSE 2 * times[k - 1]]
  BY DoublingsExist
<1>2. Doubled(cap, need) = Least(S)
  BY DEF Doubled
<1> HIDE DEF times
<1>3. \A k \in 0 .. need : times[k] = IF k = 0 THEN cap ELSE 2 * times[k - 1]
  BY <1>1
<1> DEFINE Bad == {k \in 0 .. need : ~(times[k] \in Nat /\ times[k] > k /\ times[k] >= cap)}
<1>4. Bad = {}
  <2> SUFFICES ASSUME Bad # {} PROVE FALSE
    OBVIOUS
  <2>1. Bad \in SUBSET Nat
    OBVIOUS
  <2>2. Least(Bad) \in Bad /\ \A y \in Bad : Least(Bad) <= y
    BY <2>1, LeastIs
  <2>3. PICK m \in 0 .. need : m = Least(Bad) /\ ~(times[m] \in Nat /\ times[m] > m /\ times[m] >= cap)
    BY <2>2
  <2>4. m # 0
    BY <1>3, <2>3
  <2>5. m - 1 \in 0 .. need /\ m - 1 \notin Bad
    BY <2>2, <2>3, <2>4
  <2>6. times[m - 1] \in Nat /\ times[m - 1] > m - 1 /\ times[m - 1] >= cap
    BY <2>5
  <2>7. times[m] = 2 * times[m - 1]
    BY <1>3, <2>4
  <2> QED BY <2>3, <2>4, <2>6, <2>7
<1>5. \A k \in 0 .. need : times[k] \in Nat /\ times[k] > k /\ times[k] >= cap
  BY <1>4
<1>6. need \in 0 .. need
  OBVIOUS
<1>7. S \in SUBSET Nat /\ times[need] \in S
  BY <1>5, <1>6
<1>8. Least(S) \in S /\ Least(S) \in Nat
  BY <1>7, LeastIs
<1> QED BY <1>2, <1>5, <1>8

-----------------------------------------------------------------------------
(* The arena.                                                              *)

Memories == [1 .. ArenaEnd -> Octets]

(* What lib_alloc gives out is zero.                                       *)
LEMMA ZerosAre ==
  ASSUME NEW n \in Nat
  PROVE  Zeros(n) \in Seq(Octets) /\ Len(Zeros(n)) = n /\ \A k \in 1 .. n : Zeros(n)[k] = 0
<1>1. Zeros(n) \in [1 .. n -> Octets]
  BY DEF Zeros, Octets
<1>2. Zeros(n) \in Seq(Octets)
  BY <1>1
<1> QED BY <1>1, <1>2 DEF Zeros

(* Bytes read from memory.                                                 *)
LEMMA BytesAre ==
  ASSUME NEW mem \in Memories, NEW n \in Nat, NEW at \in Nat,
         n # 0 => at >= 1 /\ at + n <= ArenaEnd + 1
  PROVE  /\ Bytes(mem, at, n) \in Seq(Octets) /\ Len(Bytes(mem, at, n)) = n
         /\ \A k \in 1 .. n : Bytes(mem, at, n)[k] = mem[at + k - 1]
<1>0. ArenaEnd \in Nat
  BY MemConstants
<1>1. \A k \in 1 .. n : at + k - 1 \in 1 .. ArenaEnd
  BY <1>0
<1>2. Bytes(mem, at, n) \in [1 .. n -> Octets]
  BY <1>1 DEF Bytes, Memories
<1>3. Bytes(mem, at, n) \in Seq(Octets)
  BY <1>2
<1> QED BY <1>2, <1>3 DEF Bytes

(* Bytes laid over memory change what lies under them and nothing else.    *)
LEMMA LaidIs ==
  ASSUME NEW mem \in Memories, NEW at \in Nat, NEW bytes \in Seq(Octets)
  PROVE  /\ LaidAt(mem, at, bytes) \in Memories
         /\ \A a \in 1 .. ArenaEnd :
              LaidAt(mem, at, bytes)[a] =
                IF a >= at /\ a < at + Len(bytes) THEN bytes[a - at + 1] ELSE mem[a]
<1>0. ArenaEnd \in Nat /\ DOMAIN mem = 1 .. ArenaEnd /\ Len(bytes) \in Nat
  BY MemConstants DEF Memories
<1>1. \A a \in 1 .. ArenaEnd : a >= at /\ a < at + Len(bytes) => a - at + 1 \in 1 .. Len(bytes)
  BY <1>0
<1>2. \A a \in 1 .. ArenaEnd :
        (IF a >= at /\ a < at + Len(bytes) THEN bytes[a - at + 1] ELSE mem[a]) \in Octets
  BY <1>1 DEF Memories
<1> QED BY <1>0, <1>2 DEF LaidAt, Memories

(* What the arena had given out stays where it was.                        *)
Beyond(g, g2) ==
  /\ g2 \in Stores /\ g2.ents = g.ents /\ g2.opens = g.opens /\ g.beg <= g2.beg
  /\ \A a \in 1 .. ArenaEnd : a < g.beg => g2.mem[a] = g.mem[a]

(* lib_alloc gives out what was not given out before.                      *)
LEMMA AllocIs ==
  ASSUME NEW g \in Stores, NEW size \in Nat
  PROVE  LET q == Alloc(g, size) IN
         /\ q.r = GIVENUP => q.fs = g
         /\ q.r # GIVENUP => /\ q.r \in Nat /\ g.beg <= q.r /\ q.fs.beg = q.r + size
                             /\ Beyond(g, q.fs)
<1> DEFINE at == g.beg + ((Align - (g.beg % Align)) % Align)
           m2 == LaidAt(g.mem, at, Zeros(size))
           g2 == [g EXCEPT !.beg = at + size, !.mem = m2]
<1>1. Align \in Nat \ {0} /\ ArenaStart \in Nat \ {0} /\ ArenaEnd \in Nat
  BY MemConstants
<1>2. g.beg \in ArenaStart .. ArenaEnd + 1 /\ g.beg \in Nat /\ g.mem \in Memories
  BY <1>1 DEF Stores, Memories
<1>3. g.beg % Align \in 0 .. Align - 1
  BY <1>1, <1>2
<1>4. (Align - (g.beg % Align)) % Align \in Nat
  BY <1>1, <1>3
<1>5. at \in Nat /\ g.beg <= at
  BY <1>2, <1>4
<1> HIDE DEF at
<1>6. Alloc(g, size) = IF at + size > ArenaEnd + 1 THEN Answered(g, GIVENUP) ELSE Answered(g2, at)
  BY DEF Alloc, at
<1>7. CASE at + size > ArenaEnd + 1
  BY <1>6, <1>7 DEF Answered
<1>8. CASE ~(at + size > ArenaEnd + 1)
  <2>1. Alloc(g, size).r = at /\ Alloc(g, size).fs = g2
    BY <1>6, <1>8 DEF Answered
  <2>2. /\ m2 \in Memories
        /\ \A a \in 1 .. ArenaEnd : m2[a] =
             IF a >= at /\ a < at + Len(Zeros(size)) THEN Zeros(size)[a - at + 1] ELSE g.mem[a]
    BY <1>2, <1>5, ZerosAre, LaidIs
  <2>3. \A a \in 1 .. ArenaEnd : a < g.beg => m2[a] = g.mem[a]
    BY <1>2, <1>5, <2>2
  <2> HIDE DEF m2
  <2>4. at + size \in ArenaStart .. ArenaEnd + 1
    BY <1>1, <1>2, <1>5, <1>8
  <2>5. /\ g2 \in Stores /\ g2.ents = g.ents /\ g2.opens = g.opens
        /\ g2.beg = at + size /\ g2.mem = m2
    BY <2>2, <2>4 DEF Stores, Memories
  <2>6. Beyond(g, g2)
    BY <1>2, <1>5, <2>3, <2>5 DEF Beyond
  <2>7. at # GIVENUP
    BY <1>5 DEF GIVENUP
  <2> QED BY <1>5, <2>1, <2>5, <2>6, <2>7
<1> QED BY <1>7, <1>8

(* A block grown is where it was, at the end of what is given out, or      *)
(* somewhere new with the same bytes in it.                                *)
Grown(g, q, p, old, size) ==
  q.r # GIVENUP =>
    /\ q.r \in Nat /\ q.r + size <= q.fs.beg /\ Beyond(g, q.fs)
    /\ (q.r = p /\ p + old = g.beg) \/ g.beg <= q.r
    /\ \A k \in 0 .. old - 1 : q.fs.mem[q.r + k] = g.mem[p + k]

(* lib_grow keeps what the block held.                                     *)
LEMMA GrowIs ==
  ASSUME NEW g \in Stores, NEW p \in Nat, NEW old \in Nat, NEW size \in Nat,
         ArenaStart <= p, p + old <= g.beg, old <= size
  PROVE  Grown(g, Grow(g, p, old, size), p, old, size)
<1>1. ArenaStart \in Nat \ {0} /\ ArenaEnd \in Nat
  BY MemConstants
<1>2. g.beg \in ArenaStart .. ArenaEnd + 1 /\ g.beg \in Nat /\ g.mem \in Memories
  BY <1>1 DEF Stores, Memories
<1>3. CASE GrowsInPlace(g, p, old, size)
  <2> DEFINE z == Zeros(size - old)
             m2 == LaidAt(g.mem, p + old, z)
             g2 == [g EXCEPT !.beg = @ + size - old, !.mem = m2]
  <2>1. Grow(g, p, old, size) = Answered(g2, p)
    BY <1>3 DEF Grow
  <2>2. p + old = g.beg /\ g.beg + size - old <= ArenaEnd + 1
    BY <1>3 DEF GrowsInPlace
  <2>3. size - old \in Nat
    OBVIOUS
  <2>4. /\ m2 \in Memories
        /\ \A a \in 1 .. ArenaEnd : m2[a] =
             IF a >= p + old /\ a < p + old + Len(z) THEN z[a - (p + old) + 1] ELSE g.mem[a]
    <3>1. z \in Seq(Octets) /\ p + old \in Nat
      BY <2>3, ZerosAre
    <3> HIDE DEF z
    <3> QED BY <1>2, <3>1, LaidIs
  <2>5. \A a \in 1 .. ArenaEnd : a < g.beg => m2[a] = g.mem[a]
    BY <1>2, <2>2, <2>4
  <2> HIDE DEF m2
  <2>6. g.beg + size - old \in ArenaStart .. ArenaEnd + 1
    BY <1>1, <1>2, <2>2, <2>3
  <2>7. /\ g2 \in Stores /\ g2.ents = g.ents /\ g2.opens = g.opens
        /\ g2.beg = g.beg + size - old /\ g2.mem = m2
    BY <2>4, <2>6 DEF Stores, Memories
  <2>8. Beyond(g, g2)
    BY <1>2, <2>3, <2>5, <2>7 DEF Beyond
  <2>9. \A k \in 0 .. old - 1 : g2.mem[p + k] = g.mem[p + k]
    BY <1>1, <1>2, <2>5, <2>7
  <2> HIDE DEF g2
  <2>10. Grow(g, p, old, size).r = p /\ Grow(g, p, old, size).fs = g2
    BY <2>1 DEF Answered
  <2>11. p + size <= g2.beg
    BY <1>2, <2>2, <2>7
  <2> QED BY <2>2, <2>8, <2>9, <2>10, <2>11 DEF Grown
<1>4. CASE ~GrowsInPlace(g, p, old, size)
  <2> DEFINE q == Alloc(g, size)
             m2 == LaidAt(q.fs.mem, q.r, Bytes(q.fs.mem, p, old))
             g2 == [q.fs EXCEPT !.mem = m2]
  <2>1. Grow(g, p, old, size) = IF q.r = GIVENUP THEN q ELSE Answered(g2, q.r)
    BY <1>4 DEF Grow
  <2>2. CASE q.r = GIVENUP
    BY <2>1, <2>2 DEF Grown
  <2>3. CASE q.r # GIVENUP
    <3>1. q.r \in Nat /\ g.beg <= q.r /\ q.fs.beg = q.r + size /\ Beyond(g, q.fs)
      BY <2>3, AllocIs
    <3> HIDE DEF q
    <3>2. q.fs \in Stores /\ q.fs.mem \in Memories /\ q.fs.beg \in ArenaStart .. ArenaEnd + 1
      BY <3>1 DEF Beyond, Stores, Memories
    <3>3. p + old <= ArenaEnd + 1 /\ p >= 1
      BY <1>1, <1>2
    <3>4. /\ Bytes(q.fs.mem, p, old) \in Seq(Octets) /\ Len(Bytes(q.fs.mem, p, old)) = old
          /\ \A k \in 1 .. old : Bytes(q.fs.mem, p, old)[k] = q.fs.mem[p + k - 1]
      BY <3>2, <3>3, BytesAre
    <3> DEFINE b == Bytes(q.fs.mem, p, old)
    <3> HIDE DEF b
    <3>5. /\ m2 \in Memories
          /\ \A a \in 1 .. ArenaEnd : m2[a] =
               IF a >= q.r /\ a < q.r + Len(b) THEN b[a - q.r + 1] ELSE q.fs.mem[a]
      BY <3>1, <3>2, <3>4, LaidIs DEF b
    <3>6. \A a \in 1 .. ArenaEnd : a < g.beg => q.fs.mem[a] = g.mem[a]
      BY <3>1 DEF Beyond
    <3> HIDE DEF m2
    <3>7. \A a \in 1 .. ArenaEnd : a < g.beg => m2[a] = g.mem[a]
      BY <1>2, <3>1, <3>5, <3>6
    <3>8. \A k \in 0 .. old - 1 : m2[q.r + k] = g.mem[p + k]
      <4> SUFFICES ASSUME NEW k \in 0 .. old - 1 PROVE m2[q.r + k] = g.mem[p + k]
        OBVIOUS
      <4>1. q.r + k \in 1 .. ArenaEnd /\ q.r + k >= q.r /\ q.r + k < q.r + old
        BY <1>1, <1>2, <3>1, <3>2
      <4>2. k + 1 \in 1 .. old /\ q.r + k - q.r + 1 = k + 1 /\ p + (k + 1) - 1 = p + k
        BY <3>1
      <4>3. Len(b) = old
        BY <3>4 DEF b
      <4>6. PICK a \in 1 .. ArenaEnd : a = q.r + k /\ a >= q.r /\ a < q.r + Len(b) /\ a - q.r + 1 = k + 1
        BY <3>1, <4>1, <4>3
      <4>7. m2[a] = b[k + 1]
        BY <3>5, <4>6
      <4>4. b[k + 1] = q.fs.mem[p + k]
        BY <3>4, <4>2 DEF b
      <4>5. p + k \in 1 .. ArenaEnd /\ p + k < g.beg
        BY <1>1, <1>2
      <4> QED BY <3>6, <4>6, <4>7, <4>4, <4>5
    <3>9. /\ g2 \in Stores /\ g2.ents = q.fs.ents /\ g2.opens = q.fs.opens
          /\ g2.beg = q.fs.beg /\ g2.mem = m2
      BY <3>2, <3>5 DEF Stores, Memories
    <3>10. Beyond(g, g2)
      BY <3>1, <3>7, <3>9 DEF Beyond
    <3>11. Grow(g, p, old, size).r = q.r /\ Grow(g, p, old, size).fs = g2
      BY <2>1, <2>3 DEF Answered
    <3> HIDE DEF g2
    <3> QED BY <3>1, <3>8, <3>9, <3>10, <3>11 DEF Grown
  <2> QED BY <2>2, <2>3
<1> QED BY <1>3, <1>4

(* The types of a record's parts, one by one.                              *)
LEMMA StoreParts ==
  ASSUME NEW g \in Stores
  PROVE  /\ g.ents \in Seq(Slots) /\ Len(g.ents) \in Nat /\ DOMAIN g.ents = 1 .. Len(g.ents)
         /\ g.opens \in [1 .. MAX_OPEN -> Openings] /\ g.mem \in Memories
         /\ g.beg \in Nat /\ ArenaStart <= g.beg /\ g.beg <= ArenaEnd + 1
         /\ ArenaStart \in Nat \ {0} /\ ArenaEnd \in Nat
         /\ \A i \in DOMAIN g.ents :
              /\ g.ents[i] \in Slots /\ g.ents[i].name \in Names
              /\ g.ents[i].isdir \in BOOLEAN /\ g.ents[i].written \in BOOLEAN
              /\ g.ents[i].len \in Nat /\ g.ents[i].cap \in Nat
              /\ g.ents[i].borrowed \in Nat /\ g.ents[i].data \in Nat
         /\ \A h \in 1 .. MAX_OPEN :
              /\ g.opens[h] \in Openings /\ g.opens[h].ent \in Nat /\ g.opens[h].pos \in Nat
              /\ g.opens[h].access \in {"READ", "WRITE", "RDWR"}
<1>1. ArenaStart \in Nat \ {0} /\ ArenaEnd \in Nat
  BY MemConstants
<1>2. /\ g.ents \in Seq(Slots) /\ g.opens \in [1 .. MAX_OPEN -> Openings]
      /\ g.mem \in Memories /\ g.beg \in ArenaStart .. ArenaEnd + 1
  BY DEF Stores, Memories
<1>3. \A i \in DOMAIN g.ents : g.ents[i] \in Slots
  BY <1>2
<1>4. \A e \in Slots : /\ e.name \in Names /\ e.isdir \in BOOLEAN /\ e.written \in BOOLEAN
                       /\ e.len \in Nat /\ e.cap \in Nat /\ e.borrowed \in Nat /\ e.data \in Nat
  BY DEF Slots
<1>5. \A o \in Openings : o.ent \in Nat /\ o.pos \in Nat /\ o.access \in {"READ", "WRITE", "RDWR"}
  BY DEF Openings
<1>6. \A h \in 1 .. MAX_OPEN : g.opens[h] \in Openings
  BY <1>2
<1> QED BY <1>1, <1>2, <1>3, <1>4, <1>5, <1>6

-----------------------------------------------------------------------------
(* ent_reserve: the file has bytes of its own, as many as it needs, and    *)
(* what was in it is in them; nobody else's are touched.                   *)

Rehoused(g, g2, i, need) ==
  LET e  == g.ents[i]
      e2 == g2.ents[i]
  IN  /\ g2 \in Stores /\ g2.opens = g.opens /\ g.beg <= g2.beg
      /\ Len(g2.ents) = Len(g.ents)
      /\ \A j \in DOMAIN g.ents : j # i => g2.ents[j] = g.ents[j]
      /\ \A a \in 1 .. ArenaEnd : a < g.beg => g2.mem[a] = g.mem[a]
      /\ e2.name = e.name /\ e2.isdir = e.isdir /\ e2.written = e.written /\ e2.len = e.len
      /\ e2.borrowed = 0 /\ ArenaStart <= e2.data /\ e2.data + e2.cap <= g2.beg
      /\ need <= e2.cap /\ e2.len <= e2.cap
      /\ (e2.data = e.data /\ (e2.cap = e.cap \/ e.data + e.cap = g.beg)) \/ g.beg <= e2.data
      /\ \A k \in 0 .. e.len - 1 : g2.mem[e2.data + k] = g.mem[Base(e) + k]

(* A slot changed, and nothing else.                                       *)
LEMMA SlotPut ==
  ASSUME NEW g \in Stores, NEW i \in DOMAIN g.ents, NEW e2 \in Slots
  PROVE  LET g2 == [g EXCEPT !.ents[i] = e2] IN
         /\ g2 \in Stores /\ g2.opens = g.opens /\ g2.mem = g.mem /\ g2.beg = g.beg
         /\ Len(g2.ents) = Len(g.ents) /\ DOMAIN g2.ents = DOMAIN g.ents
         /\ g2.ents[i] = e2
         /\ \A j \in DOMAIN g.ents : j # i => g2.ents[j] = g.ents[j]
<1> DEFINE s2 == [g.ents EXCEPT ![i] = e2]
           g2 == [g EXCEPT !.ents[i] = e2]
<1>1. g.ents \in Seq(Slots)
  BY DEF Stores
<1>2. s2 \in Seq(Slots) /\ Len(s2) = Len(g.ents) /\ DOMAIN s2 = DOMAIN g.ents
  BY <1>1
<1>3. s2[i] = e2 /\ \A j \in DOMAIN g.ents : j # i => s2[j] = g.ents[j]
  BY <1>1
<1>4. g2 = [g EXCEPT !.ents = s2]
  OBVIOUS
<1> HIDE DEF s2
<1>5. g2 \in Stores /\ g2.opens = g.opens /\ g2.mem = g.mem /\ g2.beg = g.beg /\ g2.ents = s2
  BY <1>2, <1>4 DEF Stores
<1> QED BY <1>2, <1>3, <1>5

(* The caller's bytes copied before the first write.                       *)
LEMMA UnborrowedIs ==
  ASSUME NEW g \in Stores, NEW i \in DOMAIN g.ents, NEW need \in Nat \ {0},
         SlotSound(g.ents[i], g.beg), g.ents[i].borrowed # 0
  PROVE  LET q == Unborrowed(g, i, need) IN
         q.r # GIVENUP => Rehoused(g, q.fs, i, need)
<1> DEFINE e == g.ents[i]
           cap == IF e.len > need THEN e.len ELSE need
           d == Alloc(g, IF cap = 0 THEN 1 ELSE cap)
           b == Bytes(d.fs.mem, e.borrowed, e.len)
           m2 == LaidAt(d.fs.mem, d.r, b)
           e2 == [e EXCEPT !.borrowed = 0, !.data = d.r, !.cap = cap]
           g1 == [d.fs EXCEPT !.mem = m2]
           g2 == [d.fs EXCEPT !.mem = m2, !.ents[i] = e2]
<1>1. ArenaStart \in Nat \ {0} /\ ArenaEnd \in Nat
  BY MemConstants
<1>2. /\ g.beg \in ArenaStart .. ArenaEnd + 1 /\ g.beg \in Nat /\ g.mem \in Memories
      /\ e \in Slots /\ e.len \in Nat /\ e.borrowed \in Nat /\ g.ents \in Seq(Slots)
  BY StoreParts
<1>3. cap \in Nat \ {0} /\ need <= cap /\ e.len <= cap
  BY <1>2
<1>4. d = Alloc(g, cap)
  BY <1>3
<1>5. Unborrowed(g, i, need) = IF d.r = GIVENUP THEN d ELSE Answered(g2, 1)
  BY DEF Unborrowed
<1> HIDE DEF d, cap
<1>6. CASE d.r = GIVENUP
  BY <1>5, <1>6
<1>7. CASE d.r # GIVENUP
  <2>1. d.r \in Nat /\ g.beg <= d.r /\ d.fs.beg = d.r + cap /\ Beyond(g, d.fs)
    BY <1>3, <1>4, <1>7, AllocIs
  <2>2. d.fs \in Stores /\ d.fs.mem \in Memories /\ d.fs.beg \in ArenaStart .. ArenaEnd + 1
    BY <2>1 DEF Beyond, Stores, Memories
  <2>3. e.borrowed + e.len <= ArenaStart /\ e.borrowed >= 1
    BY <1>2 DEF SlotSound
  <2>4. /\ b \in Seq(Octets) /\ Len(b) = e.len
        /\ \A k \in 1 .. e.len : b[k] = d.fs.mem[e.borrowed + k - 1]
    <3>1. e.borrowed + e.len <= ArenaEnd + 1
      BY <1>1, <1>2, <2>3
    <3> HIDE DEF e
    <3> QED BY <1>2, <2>2, <2>3, <3>1, BytesAre
  <2> HIDE DEF b
  <2>5. /\ m2 \in Memories
        /\ \A a \in 1 .. ArenaEnd : m2[a] =
             IF a >= d.r /\ a < d.r + Len(b) THEN b[a - d.r + 1] ELSE d.fs.mem[a]
    BY <2>1, <2>2, <2>4, LaidIs
  <2>6. \A a \in 1 .. ArenaEnd : a < g.beg => d.fs.mem[a] = g.mem[a]
    BY <2>1 DEF Beyond
  <2> HIDE DEF m2, e
  <2>7. \A a \in 1 .. ArenaEnd : a < g.beg => m2[a] = g.mem[a]
    BY <1>2, <2>1, <2>5, <2>6
  <2>8. Base(e) = e.borrowed
    BY <2>3 DEF Base, SlotSound, e
  <2>9. \A k \in 0 .. e.len - 1 : m2[d.r + k] = g.mem[Base(e) + k]
    <3> SUFFICES ASSUME NEW k \in 0 .. e.len - 1 PROVE m2[d.r + k] = g.mem[Base(e) + k]
      OBVIOUS
    <3>1. PICK a \in 1 .. ArenaEnd : a = d.r + k /\ a >= d.r /\ a < d.r + Len(b) /\ a - d.r + 1 = k + 1
      <4>1. d.r + k \in 1 .. ArenaEnd
        <5>1. d.r \in Nat /\ d.r >= 1 /\ k \in Nat /\ k < cap
          BY <1>1, <1>2, <1>3, <2>1
        <5>2. d.r + cap <= ArenaEnd + 1
          BY <2>1, <2>2
        <5> QED BY <1>1, <1>3, <5>1, <5>2
      <4> DEFINE a == d.r + k
      <4>2. a >= d.r /\ a < d.r + Len(b) /\ a - d.r + 1 = k + 1
        BY <1>2, <2>1, <2>4
      <4>3. a \in 1 .. ArenaEnd /\ a = d.r + k
        BY <4>1
      <4> HIDE DEF a
      <4> QED BY <4>2, <4>3
    <3>2. m2[a] = b[k + 1]
      BY <2>5, <3>1
    <3>3. k + 1 \in 1 .. e.len /\ e.borrowed + (k + 1) - 1 = e.borrowed + k
      BY <1>2
    <3>4. b[k + 1] = d.fs.mem[e.borrowed + k]
      BY <2>4, <3>3
    <3>5. e.borrowed + k \in 1 .. ArenaEnd /\ e.borrowed + k < g.beg
      BY <1>1, <1>2, <2>3
    <3> QED BY <2>6, <2>8, <3>1, <3>2, <3>4, <3>5
  <2>10. /\ g1 \in Stores /\ g1.ents = g.ents /\ g1.opens = g.opens
         /\ g1.beg = d.fs.beg /\ g1.mem = m2
    BY <2>1, <2>2, <2>5 DEF Beyond, Stores, Memories
  <2>11. e2 \in Slots /\ e2.name = e.name /\ e2.isdir = e.isdir /\ e2.written = e.written
         /\ e2.len = e.len /\ e2.borrowed = 0 /\ e2.data = d.r /\ e2.cap = cap
    BY <1>2, <1>3, <2>1 DEF Slots
  <2>12. g2 = [g1 EXCEPT !.ents[i] = e2]
    OBVIOUS
  <2> HIDE DEF g1, g2, e2
  <2>13. /\ g2 \in Stores /\ g2.opens = g1.opens /\ g2.mem = g1.mem /\ g2.beg = g1.beg
         /\ Len(g2.ents) = Len(g1.ents) /\ g2.ents[i] = e2
         /\ \A j \in DOMAIN g1.ents : j # i => g2.ents[j] = g1.ents[j]
    BY <2>10, <2>11, <2>12, SlotPut
  <2>14. Unborrowed(g, i, need).fs = g2
    BY <1>5, <1>7 DEF Answered
  <2>15. ArenaStart <= d.r /\ d.r + cap <= d.fs.beg /\ g.beg <= d.fs.beg
    BY <1>1, <1>2, <1>3, <2>1
  <2>16. Rehoused(g, g2, i, need)
    <3>1. e = g.ents[i]
      BY DEF e
    <3>2. g2.opens = g.opens /\ g.beg <= g2.beg /\ Len(g2.ents) = Len(g.ents)
      BY <2>10, <2>13, <2>15
    <3>3. \A j \in DOMAIN g.ents : j # i => g2.ents[j] = g.ents[j]
      BY <2>10, <2>13
    <3>4. g2.mem = m2 /\ g2.beg = d.fs.beg
      BY <2>10, <2>13
    <3> QED BY <1>3, <2>1, <2>7, <2>9, <2>11, <2>13, <2>15, <3>1, <3>2, <3>3, <3>4 DEF Rehoused
  <2> QED BY <2>14, <2>16
<1> QED BY <1>6, <1>7

(* ent_reserve, in place or by moving.                                     *)
LEMMA ReservedIs ==
  ASSUME NEW g \in Stores, NEW i \in DOMAIN g.ents, NEW need \in Nat \ {0},
         SlotSound(g.ents[i], g.beg)
  PROVE  LET q == Reserved(g, i, need) IN
         q.r # GIVENUP => Rehoused(g, q.fs, i, need)
<1> DEFINE e == g.ents[i]
           own == Unborrowed(g, i, need)
           e1 == own.fs.ents[i]
           cap == Doubled(IF e1.cap = 0 THEN MinCap ELSE e1.cap, need)
           room == IF e1.data # 0 THEN Grow(own.fs, e1.data, e1.cap, cap) ELSE Alloc(own.fs, cap)
           e2 == [e1 EXCEPT !.data = room.r, !.cap = cap]
           g2 == [room.fs EXCEPT !.ents[i] = e2]
<1>1. ArenaStart \in Nat \ {0} /\ ArenaEnd \in Nat /\ MinCap \in Nat \ {0}
  BY MemConstants
<1>2. /\ g.beg \in ArenaStart .. ArenaEnd + 1 /\ g.beg \in Nat /\ g.mem \in Memories
      /\ e \in Slots /\ e.len \in Nat /\ e.borrowed \in Nat /\ g.ents \in Seq(Slots)
      /\ e.data \in Nat /\ e.cap \in Nat
  BY StoreParts
<1>3. Reserved(g, i, need) =
        IF own.r = GIVENUP \/ need <= e1.cap THEN own
        ELSE IF room.r = GIVENUP THEN room ELSE Answered(g2, 1)
  BY DEF Reserved
<1>4. CASE e.borrowed # 0
  <2> HIDE DEF own, room, g2
  <2>1. own.r # GIVENUP => Rehoused(g, own.fs, i, need)
    BY <1>4, UnborrowedIs DEF own
  <2>2. own.r # GIVENUP => need <= e1.cap
    BY <2>1 DEF Rehoused
  <2> QED BY <1>3, <2>1, <2>2
<1>5. CASE e.borrowed = 0
  <2>1. own.fs = g /\ own.r = 1 /\ own.r # GIVENUP
    BY <1>5 DEF Unborrowed, Answered, GIVENUP
  <2> HIDE DEF own
  <2>2. e1 = e
    BY <2>1
  <2>3. CASE need <= e.cap
    <3>1. Reserved(g, i, need) = own
      BY <1>3, <2>2, <2>3
    <3>2. e.data # 0 /\ Base(e) = e.data
      BY <1>2, <2>3 DEF SlotSound, Base
    <3>3. Rehoused(g, g, i, need)
      <4>1. ArenaStart <= e.data /\ e.data + e.cap <= g.beg /\ e.len <= e.cap
        BY <3>2 DEF SlotSound
      <4> QED BY <1>2, <1>5, <2>3, <3>2, <4>1 DEF Rehoused
    <3> QED BY <2>1, <3>1, <3>3
  <2>4. CASE ~(need <= e.cap)
    <3>1. cap \in Nat /\ cap >= need /\ cap >= e.cap
      <4>1. (IF e1.cap = 0 THEN MinCap ELSE e1.cap) \in Nat \ {0}
        BY <1>1, <1>2, <2>2
      <4>2. cap \in Nat /\ cap >= need /\ cap >= (IF e1.cap = 0 THEN MinCap ELSE e1.cap)
        BY <4>1, DoubledIs
      <4> HIDE DEF cap
      <4> QED BY <1>1, <1>2, <2>2, <4>2
    <3> HIDE DEF cap, room
    <3>2. CASE room.r = GIVENUP
      BY <1>3, <2>1, <2>2, <2>4, <3>2
    <3>3. CASE room.r # GIVENUP
      <4>1. /\ room.r \in Nat /\ ArenaStart <= room.r /\ room.r + cap <= room.fs.beg
            /\ Beyond(g, room.fs)
            /\ (room.r = e.data /\ e.data + e.cap = g.beg) \/ g.beg <= room.r
            /\ \A k \in 0 .. e.len - 1 : room.fs.mem[room.r + k] = g.mem[Base(e) + k]
        <5>1. CASE e.data # 0
          <6>1. ArenaStart <= e.data /\ e.data + e.cap <= g.beg /\ e.len <= e.cap /\ Base(e) = e.data
            BY <5>1 DEF SlotSound, Base
          <6>2. room = Grow(g, e.data, e.cap, cap)
            BY <2>1, <2>2, <5>1 DEF room
          <6>3. /\ room.r \in Nat /\ room.r + cap <= room.fs.beg /\ Beyond(g, room.fs)
                /\ (room.r = e.data /\ e.data + e.cap = g.beg) \/ g.beg <= room.r
                /\ \A k \in 0 .. e.cap - 1 : room.fs.mem[room.r + k] = g.mem[e.data + k]
            <7> HIDE DEF e
            <7>1. Grown(g, Grow(g, e.data, e.cap, cap), e.data, e.cap, cap)
              <8>1. /\ e.data \in Nat /\ e.cap \in Nat /\ cap \in Nat /\ e.cap <= cap
                    /\ ArenaStart <= e.data /\ e.data + e.cap <= g.beg
                BY <1>2, <3>1, <6>1
              <8> QED BY <8>1, GrowIs
            <7> QED BY <3>3, <6>2, <7>1 DEF Grown
          <6>4. \A k \in 0 .. e.len - 1 : k \in 0 .. e.cap - 1
            BY <1>2, <6>1
          <6>5. ArenaStart <= room.r
            BY <1>1, <1>2, <6>1, <6>3
          <6> HIDE DEF e
          <6>6. \A k \in 0 .. e.len - 1 : room.fs.mem[room.r + k] = g.mem[Base(e) + k]
            BY <6>1, <6>3, <6>4
          <6> QED BY <6>3, <6>5, <6>6
        <5>2. CASE e.data = 0
          <6>1. e.len = 0
            BY <1>5, <5>2 DEF SlotSound
          <6>2. room = Alloc(g, cap)
            BY <2>1, <2>2, <5>2 DEF room
          <6>3. room.r \in Nat /\ g.beg <= room.r /\ room.fs.beg = room.r + cap /\ Beyond(g, room.fs)
            BY <3>1, <3>3, <6>2, AllocIs
          <6>4. ArenaStart <= room.r /\ room.r + cap <= room.fs.beg
            BY <1>1, <1>2, <3>1, <6>3
          <6>5. \A k \in 0 .. e.len - 1 : FALSE
            BY <6>1
          <6> QED BY <6>3, <6>4, <6>5
        <5> QED BY <5>1, <5>2
      <4>2. room.fs \in Stores /\ room.fs.ents = g.ents /\ room.fs.opens = g.opens /\ g.beg <= room.fs.beg
        BY <4>1 DEF Beyond
      <4>3. \A a \in 1 .. ArenaEnd : a < g.beg => room.fs.mem[a] = g.mem[a]
        BY <4>1 DEF Beyond
      <4>4. e2 \in Slots /\ e2.name = e.name /\ e2.isdir = e.isdir /\ e2.written = e.written
            /\ e2.len = e.len /\ e2.borrowed = 0 /\ e2.data = room.r /\ e2.cap = cap
        BY <1>2, <1>5, <2>2, <3>1, <4>1 DEF Slots
      <4>5. e.len <= cap
        <5>1. e.len <= e.cap \/ e.len = 0
          BY <1>2, <1>5 DEF SlotSound
        <5> HIDE DEF e
        <5> QED BY <1>2, <3>1, <5>1
      <4> HIDE DEF e2
      <4>6. /\ g2 \in Stores /\ g2.opens = room.fs.opens /\ g2.mem = room.fs.mem
            /\ g2.beg = room.fs.beg /\ Len(g2.ents) = Len(room.fs.ents) /\ g2.ents[i] = e2
            /\ \A j \in DOMAIN room.fs.ents : j # i => g2.ents[j] = room.fs.ents[j]
        BY <4>2, <4>4, SlotPut
      <4>7. Reserved(g, i, need).fs = g2
        BY <1>3, <2>1, <2>2, <2>4, <3>3 DEF Answered
      <4> HIDE DEF g2
      <4>8. Rehoused(g, g2, i, need)
        BY <3>1, <4>1, <4>2, <4>3, <4>4, <4>5, <4>6 DEF Rehoused
      <4> QED BY <4>7, <4>8
    <3> QED BY <3>2, <3>3
  <2> QED BY <2>3, <2>4
<1> QED BY <1>4, <1>5

-----------------------------------------------------------------------------
(* Names, and the directory they make.                                     *)

(* The slots in use.                                                       *)
LEMMA UsedAre ==
  ASSUME NEW g \in Stores
  PROVE  /\ Used(g) \subseteq DOMAIN g.ents /\ Used(g) \in SUBSET Nat
         /\ \A i \in DOMAIN g.ents : i \in Used(g) <=> g.ents[i].name # <<>>
BY StoreParts DEF Used

(* find_ent finds the slot of a name, if there is one.                     *)
LEMMA FoundIs ==
  ASSUME NEW g \in Stores, NEW name
  PROVE  /\ Found(g, name) # 0 => Found(g, name) \in Used(g) /\ g.ents[Found(g, name)].name = name
         /\ (\E i \in Used(g) : g.ents[i].name = name) => Found(g, name) # 0
<1> DEFINE at == {i \in Used(g) : g.ents[i].name = name}
<1>1. at \in SUBSET Nat /\ 0 \notin at
  BY UsedAre, StoreParts
<1>2. Found(g, name) = IF at = {} THEN 0 ELSE Least(at)
  BY DEF Found
<1>3. CASE at = {}
  BY <1>2, <1>3
<1>4. CASE at # {}
  <2>1. Least(at) \in at
    BY <1>1, <1>4, LeastIs
  <2> QED BY <1>1, <1>2, <1>4, <2>1
<1> QED BY <1>3, <1>4

(* It finds the only one.                                                  *)
LEMMA FoundOnly ==
  ASSUME NEW g \in Stores, NamesSound(g), NEW i \in Used(g)
  PROVE  Found(g, g.ents[i].name) = i
BY FoundIs DEF NamesSound

(* is_dir, by the slots.                                                   *)
LEMMA IsDirIs ==
  ASSUME NEW g \in Stores, NamesSound(g), NEW name
  PROVE  IsDir(g, name) <=> \E i \in Used(g) : g.ents[i].name = name /\ g.ents[i].isdir
<1>1. Found(g, name) # 0 => Found(g, name) \in Used(g) /\ g.ents[Found(g, name)].name = name
  BY FoundIs
<1>2. ASSUME NEW i \in Used(g), g.ents[i].name = name
      PROVE  Found(g, name) = i /\ Found(g, name) # 0
  BY <1>2, FoundOnly, FoundIs
<1> QED BY <1>1, <1>2 DEF IsDir

Shown(g, i) == [isdir |-> g.ents[i].isdir, bytes |-> Contents(g, i)]

(* What is shown under a name is the slot that has it.                     *)
LEMMA DirIs ==
  ASSUME NEW g \in Stores, NamesSound(g)
  PROVE  /\ DOMAIN DirOf(g) = Taken(g)
         /\ \A i \in Used(g) : g.ents[i].name \in Taken(g)
                               /\ DirOf(g)[g.ents[i].name] = Shown(g, i)
         /\ \A name : name \in Taken(g) <=> Found(g, name) # 0
         /\ \A name \in Taken(g) : DirOf(g)[name] = Shown(g, Found(g, name))
         /\ DirOf(g) = [name \in Taken(g) |-> Shown(g, Found(g, name))]
<1>1. DirOf(g) = [name \in Taken(g) |-> Shown(g, Found(g, name))]
  BY DEF DirOf, Taken, Shown
<1>2. \A i \in Used(g) : g.ents[i].name \in Taken(g)
  BY DEF Taken
<1>3. \A i \in Used(g) : Found(g, g.ents[i].name) = i
  BY FoundOnly
<1>4. ASSUME NEW name
      PROVE  name \in Taken(g) <=> Found(g, name) # 0
  BY FoundIs DEF Taken
<1> QED BY <1>1, <1>2, <1>3, <1>4

(* Whoever shows the same under every name is the same directory.          *)
LEMMA DirEq ==
  ASSUME NEW g \in Stores, NamesSound(g), NEW D, D = [n \in Taken(g) |-> D[n]],
         \A i \in Used(g) : D[g.ents[i].name] = Shown(g, i)
  PROVE  DirOf(g) = D
<1>1. ASSUME NEW n \in Taken(g)
      PROVE  D[n] = Shown(g, Found(g, n))
  <2>1. PICK i \in Used(g) : n = g.ents[i].name
    BY DEF Taken
  <2> QED BY <2>1, FoundOnly
<1> QED BY <1>1, DirIs

SameNames(g, g2) ==
  /\ Len(g2.ents) = Len(g.ents)
  /\ \A i \in DOMAIN g.ents : g2.ents[i].name = g.ents[i].name /\ g2.ents[i].isdir = g.ents[i].isdir

(* As long as no name changes, every name is found where it was.           *)
LEMMA SameNamesKeep ==
  ASSUME NEW g \in Stores, NEW g2 \in Stores, SameNames(g, g2)
  PROVE  /\ DOMAIN g2.ents = DOMAIN g.ents /\ Used(g2) = Used(g) /\ Taken(g2) = Taken(g)
         /\ \A name : Found(g2, name) = Found(g, name) /\ (IsDir(g2, name) <=> IsDir(g, name))
         /\ NamesSound(g) => NamesSound(g2)
<1>1. DOMAIN g2.ents = DOMAIN g.ents
  BY StoreParts DEF SameNames
<1>2. Used(g2) = Used(g)
  BY <1>1 DEF Used, SameNames
<1>3. \A i \in Used(g) : g2.ents[i].name = g.ents[i].name /\ g2.ents[i].isdir = g.ents[i].isdir
  BY UsedAre DEF SameNames
<1>4. Taken(g2) = Taken(g)
  BY <1>2, <1>3 DEF Taken
<1>5. ASSUME NEW name
      PROVE  Found(g2, name) = Found(g, name) /\ (IsDir(g2, name) <=> IsDir(g, name))
  <2>1. {i \in Used(g2) : g2.ents[i].name = name} = {i \in Used(g) : g.ents[i].name = name}
    BY <1>2, <1>3
  <2>2. Found(g2, name) = Found(g, name)
    BY <2>1 DEF Found
  <2>3. Found(g, name) # 0 => Found(g, name) \in Used(g)
    BY FoundIs
  <2> QED BY <1>3, <2>2, <2>3 DEF IsDir
<1>6. NamesSound(g) => NamesSound(g2)
  BY <1>2, <1>3, <1>5 DEF NamesSound, Standing
<1> QED BY <1>1, <1>2, <1>4, <1>5, <1>6

-----------------------------------------------------------------------------
(* fs_write: the bytes over what was there, and zeros up to them.          *)

(* A string and the zeros before it, laid over a file's bytes.             *)
LEMMA WrittenBytes ==
  ASSUME NEW mem \in Memories, NEW e \in Slots, NEW pos \in Nat, NEW src \in Seq(Octets),
         e.data >= 1, e.data + e.cap <= ArenaEnd + 1, pos + Len(src) <= e.cap, e.len <= e.cap
  PROVE  LET m == LaidAt(GapFilled(mem, e, pos), e.data + pos, src) IN
         /\ m \in Memories
         /\ \A a \in 1 .. ArenaEnd : a < e.data \/ a >= e.data + e.cap => m[a] = mem[a]
         /\ \A k \in 0 .. e.cap - 1 : k < e.len \/ k < pos + Len(src) =>
              m[e.data + k] = IF k >= pos /\ k < pos + Len(src) THEN src[k - pos + 1]
                              ELSE IF k < e.len THEN mem[e.data + k] ELSE 0
<1> DEFINE m1 == GapFilled(mem, e, pos)
           m == LaidAt(m1, e.data + pos, src)
<1>1. ArenaEnd \in Nat /\ Len(src) \in Nat /\ e.data \in Nat /\ e.cap \in Nat /\ e.len \in Nat
  BY MemConstants DEF Slots
<1>2. /\ m1 \in Memories
      /\ \A a \in 1 .. ArenaEnd : m1[a] = IF a >= e.data + e.len /\ a < e.data + pos THEN 0 ELSE mem[a]
  <2>1. CASE pos > e.len
    <3> DEFINE z == Zeros(pos - e.len)
    <3>1. pos - e.len \in Nat
      BY <1>1, <2>1
    <3>2. z \in Seq(Octets) /\ Len(z) = pos - e.len /\ \A k \in 1 .. pos - e.len : z[k] = 0
      BY <3>1, ZerosAre
    <3>3. m1 = LaidAt(mem, e.data + e.len, z)
      BY <2>1 DEF GapFilled
    <3> HIDE DEF z, m1
    <3>4. e.data + e.len \in Nat
      BY <1>1
    <3>5. /\ m1 \in Memories
          /\ \A a \in 1 .. ArenaEnd : m1[a] =
               IF a >= e.data + e.len /\ a < e.data + e.len + Len(z)
               THEN z[a - (e.data + e.len) + 1] ELSE mem[a]
      BY <3>2, <3>3, <3>4, LaidIs
    <3>6. e.data + e.len + Len(z) = e.data + pos
      <4>1. Len(z) = pos - e.len
        BY <3>2
      <4>2. \A x, y \in Nat : x + y + (pos - y) = x + pos
        OBVIOUS
      <4>3. e.data + e.len + (pos - e.len) = e.data + pos
        BY <1>1, <4>2
      <4> QED BY <4>1, <4>3
    <3>7. ASSUME NEW a \in 1 .. ArenaEnd, a >= e.data + e.len, a < e.data + pos
          PROVE  z[a - (e.data + e.len) + 1] = 0
      <4>1. a - (e.data + e.len) + 1 \in 1 .. pos - e.len
        BY <1>1, <2>1, <3>7
      <4> QED BY <3>2, <4>1
    <3> QED BY <3>5, <3>6, <3>7
  <2>2. CASE ~(pos > e.len)
    <3>1. m1 = mem
      BY <2>2 DEF GapFilled
    <3>2. \A a \in 1 .. ArenaEnd : ~(a >= e.data + e.len /\ a < e.data + pos)
      BY <1>1, <2>2
    <3> QED BY <3>1, <3>2
  <2> QED BY <2>1, <2>2
<1> HIDE DEF m1
<1>3. e.data + pos \in Nat
  BY <1>1
<1>4. /\ m \in Memories
      /\ \A a \in 1 .. ArenaEnd : m[a] =
           IF a >= e.data + pos /\ a < e.data + pos + Len(src)
           THEN src[a - (e.data + pos) + 1] ELSE m1[a]
  BY <1>2, <1>3, LaidIs
<1> HIDE DEF m
<1>5. \A a \in 1 .. ArenaEnd : a < e.data \/ a >= e.data + e.cap => m[a] = mem[a]
  BY <1>1, <1>2, <1>4
<1>6. ASSUME NEW k \in 0 .. e.cap - 1, k < e.len \/ k < pos + Len(src)
      PROVE  m[e.data + k] = IF k >= pos /\ k < pos + Len(src) THEN src[k - pos + 1]
                             ELSE IF k < e.len THEN mem[e.data + k] ELSE 0
  <2> DEFINE a == e.data + k
  <2>1. a \in 1 .. ArenaEnd
    BY <1>1
  <2>2. a - (e.data + pos) + 1 = k - pos + 1
    BY <1>1
  <2>3. /\ a >= e.data + pos <=> k >= pos
        /\ a < e.data + pos + Len(src) <=> k < pos + Len(src)
        /\ a >= e.data + e.len <=> ~(k < e.len)
        /\ a < e.data + pos <=> ~(k >= pos)
    BY <1>1
  <2>4. a = e.data + k
    OBVIOUS
  <2> HIDE DEF a
  <2>5. m[a] = IF k >= pos /\ k < pos + Len(src) THEN src[k - pos + 1] ELSE m1[a]
    BY <1>4, <2>1, <2>2, <2>3
  <2>6. m1[a] = IF ~(k < e.len) /\ ~(k >= pos) THEN 0 ELSE mem[a]
    BY <1>2, <2>1, <2>3
  <2>7. ~(k < e.len) => k < pos + Len(src)
    BY <1>6
  <2> QED BY <2>4, <2>5, <2>6, <2>7
<1> QED BY <1>4, <1>5, <1>6 DEF m, m1

(* Where a file's bytes are.                                               *)
LEMMA ContentsAre ==
  ASSUME NEW g \in Stores, BytesSound(g), NEW i \in DOMAIN g.ents
  PROVE  LET e == g.ents[i] IN
         /\ Contents(g, i) \in Seq(Octets) /\ Len(Contents(g, i)) = e.len
         /\ Contents(g, i) = [k \in 1 .. e.len |-> g.mem[Base(e) + k - 1]]
         /\ Base(e) \in Nat
         /\ e.len # 0 => 1 <= Base(e) /\ Base(e) + e.len <= g.beg
         /\ e.data # 0 => Base(e) = e.data /\ e.len <= e.cap
         /\ e.data = 0 /\ e.len # 0 => Base(e) + e.len <= ArenaStart
<1> DEFINE e == g.ents[i]
<1>1. /\ g.mem \in Memories /\ e.len \in Nat /\ e.cap \in Nat /\ e.data \in Nat /\ e.borrowed \in Nat
      /\ g.beg \in Nat /\ ArenaStart <= g.beg /\ g.beg <= ArenaEnd + 1
      /\ ArenaStart \in Nat \ {0} /\ ArenaEnd \in Nat
  BY StoreParts
<1>2. SlotSound(e, g.beg)
  BY DEF BytesSound
<1>3. Contents(g, i) = Bytes(g.mem, Base(e), e.len)
  BY DEF Contents
<1> HIDE DEF e
<1>4. Base(e) = IF e.data # 0 THEN e.data ELSE e.borrowed
  BY DEF Base
<1>5. e.len # 0 => 1 <= Base(e) /\ Base(e) + e.len <= g.beg
  BY <1>1, <1>2, <1>4 DEF SlotSound
<1>6. e.data # 0 => Base(e) = e.data /\ e.len <= e.cap
  BY <1>2, <1>4 DEF SlotSound
<1>7. e.data = 0 /\ e.len # 0 => Base(e) + e.len <= ArenaStart
  BY <1>2, <1>4 DEF SlotSound
<1>8. Base(e) \in Nat
  BY <1>1, <1>4
<1>9. e.len # 0 => Base(e) + e.len <= ArenaEnd + 1
  BY <1>1, <1>5, <1>8
<1>10. Contents(g, i) \in Seq(Octets) /\ Len(Contents(g, i)) = e.len
  BY <1>1, <1>3, <1>5, <1>8, <1>9, BytesAre
<1>11. Contents(g, i) = [k \in 1 .. e.len |-> g.mem[Base(e) + k - 1]]
  BY <1>3 DEF Bytes
<1> QED BY <1>5, <1>6, <1>7, <1>8, <1>10, <1>11 DEF e

(* Another file, whose bytes nobody touched.                               *)
LEMMA ContentsStay ==
  ASSUME NEW g \in Stores, NEW g2 \in Stores, BytesSound(g), NEW i \in DOMAIN g.ents,
         g2.ents[i] = g.ents[i],
         \A a \in 1 .. ArenaEnd :
           a >= Base(g.ents[i]) /\ a < Base(g.ents[i]) + g.ents[i].len => g2.mem[a] = g.mem[a]
  PROVE  Contents(g2, i) = Contents(g, i)
<1> DEFINE e == g.ents[i]
<1>1. /\ Base(e) \in Nat
      /\ e.len # 0 => 1 <= Base(e) /\ Base(e) + e.len <= g.beg
  BY ContentsAre
<1>2. e.len \in Nat /\ g.beg \in Nat /\ g.beg <= ArenaEnd + 1 /\ ArenaEnd \in Nat /\ Base(e) \in Nat
  BY StoreParts, ContentsAre
<1>3. \A k \in 1 .. e.len : g2.mem[Base(e) + k - 1] = g.mem[Base(e) + k - 1]
  <2> SUFFICES ASSUME NEW k \in 1 .. e.len
               PROVE  g2.mem[Base(e) + k - 1] = g.mem[Base(e) + k - 1]
    OBVIOUS
  <2> HIDE DEF e
  <2>1. Base(e) + k - 1 \in 1 .. ArenaEnd /\ Base(e) + k - 1 >= Base(e) /\ Base(e) + k - 1 < Base(e) + e.len
    BY <1>1, <1>2
  <2> QED BY <2>1 DEF e
<1>4. Contents(g2, i) = Bytes(g2.mem, Base(e), e.len) /\ Contents(g, i) = Bytes(g.mem, Base(e), e.len)
  BY DEF Contents
<1> HIDE DEF e
<1> QED BY <1>3, <1>4 DEF Bytes

Wrote(g, g3, h, i, pos, src) ==
  /\ FilesSound(g3) /\ SameNames(g, g3)
  /\ g3.opens = [g.opens EXCEPT ![h].pos = pos + Len(src)]
  /\ Contents(g3, i) = Dir!Overlaid(Contents(g, i), pos, src)
  /\ \A j \in DOMAIN g.ents : j # i => Contents(g3, j) = Contents(g, j)

Marked(g, i) == [g EXCEPT !.ents[i].written = TRUE]

(* The mark of a write changes nothing else.                               *)
LEMMA MarkedIs ==
  ASSUME NEW g, FilesSound(g), NEW i \in Used(g)
  PROVE  /\ FilesSound(Marked(g, i)) /\ SameNames(g, Marked(g, i))
         /\ Marked(g, i).opens = g.opens /\ Marked(g, i).mem = g.mem /\ Marked(g, i).beg = g.beg
         /\ i \in DOMAIN g.ents
         /\ Marked(g, i).ents[i] = [g.ents[i] EXCEPT !.written = TRUE]
         /\ \A j \in DOMAIN g.ents : j # i => Marked(g, i).ents[j] = g.ents[j]
         /\ \A j \in DOMAIN g.ents : Contents(Marked(g, i), j) = Contents(g, j)
<1> DEFINE e == g.ents[i]
           e2 == [e EXCEPT !.written = TRUE]
           g2 == Marked(g, i)
<1>1. g \in Stores /\ Len(g.ents) <= MAX_ENTRIES /\ NamesSound(g) /\ BytesSound(g)
  BY DEF FilesSound, Typed
<1>2. i \in DOMAIN g.ents /\ e.name # <<>>
  BY <1>1 DEF Used
<1>3. e \in Slots
  BY <1>1, <1>2, StoreParts
<1>4. /\ e2 \in Slots /\ e2.name = e.name /\ e2.isdir = e.isdir /\ e2.written
      /\ e2.borrowed = e.borrowed /\ e2.data = e.data /\ e2.len = e.len /\ e2.cap = e.cap
  BY <1>3 DEF Slots
<1>5. g2 = [g EXCEPT !.ents[i] = e2]
  BY DEF Marked
<1> HIDE DEF g2, e2
<1>6. /\ g2 \in Stores /\ g2.opens = g.opens /\ g2.mem = g.mem /\ g2.beg = g.beg
      /\ Len(g2.ents) = Len(g.ents) /\ DOMAIN g2.ents = DOMAIN g.ents /\ g2.ents[i] = e2
      /\ \A j \in DOMAIN g.ents : j # i => g2.ents[j] = g.ents[j]
  BY <1>1, <1>2, <1>4, <1>5, SlotPut
<1>7. SameNames(g, g2)
  BY <1>2, <1>4, <1>6 DEF SameNames
<1>8. NamesSound(g2)
  BY <1>1, <1>6, <1>7, SameNamesKeep
<1>9. BytesSound(g2)
  <2>1. SlotSound(e, g.beg)
    BY <1>1, <1>2 DEF BytesSound
  <2>2. SlotSound(e2, g.beg) /\ MarkSound(e2)
    BY <1>2, <1>4, <2>1 DEF SlotSound, MarkSound
  <2>3. \A j \in DOMAIN g.ents : SlotSound(g2.ents[j], g.beg) /\ MarkSound(g2.ents[j])
    BY <1>1, <1>6, <2>2 DEF BytesSound
  <2>4. \A j, k \in DOMAIN g.ents : j # k => SpansApart(g2.ents[j], g2.ents[k])
    <3>1. \A j \in DOMAIN g.ents :
            g2.ents[j].data = g.ents[j].data /\ g2.ents[j].cap = g.ents[j].cap
      BY <1>2, <1>4, <1>6 DEF e
    <3> QED BY <1>1, <3>1 DEF BytesSound, SpansApart
  <2> QED BY <1>1, <1>6, <2>3, <2>4 DEF BytesSound
<1>10. FilesSound(g2)
  BY <1>1, <1>6, <1>8, <1>9 DEF FilesSound, Typed
<1>11. \A j \in DOMAIN g.ents : Contents(g2, j) = Contents(g, j)
  BY <1>2, <1>4, <1>6 DEF Contents, Base
<1> QED BY <1>2, <1>6, <1>7, <1>10, <1>11 DEF g2, e2

(* What fs_write leaves once there is room: g2 is where the room was made. *)
Over(g2, h, i, pos, src) ==
  LET e == g2.ents[i] IN
  [g2 EXCEPT !.mem = LaidAt(GapFilled(@, e, pos), Base(e) + pos, src),
             !.ents[i].len = IF pos + Len(src) > @ THEN pos + Len(src) ELSE @,
             !.opens[h].pos = pos + Len(src)]

(* The bytes written, once there is room for them.                         *)
LEMMA OverIs ==
  ASSUME NEW g, FilesSound(g), NEW i \in Used(g), ~g.ents[i].isdir, g.ents[i].written,
         NEW h \in 1 .. MAX_OPEN, NEW pos \in Nat, NEW src \in Seq(Octets), src # <<>>,
         NEW g2, Rehoused(g, g2, i, pos + Len(src))
  PROVE  Wrote(g, Over(g2, h, i, pos, src), h, i, pos, src)
<1> DEFINE e == g.ents[i]
           e2 == g2.ents[i]
           end == pos + Len(src)
           len3 == IF end > e2.len THEN end ELSE e2.len
           e3 == [e2 EXCEPT !.len = len3]
           m == LaidAt(GapFilled(g2.mem, e2, pos), e2.data + pos, src)
           o3 == [g2.opens EXCEPT ![h].pos = end]
           gm == [g2 EXCEPT !.mem = m, !.opens = o3]
           g3 == [gm EXCEPT !.ents[i] = e3]
<1>1. /\ g \in Stores /\ Len(g.ents) <= MAX_ENTRIES /\ NamesSound(g) /\ BytesSound(g)
      /\ i \in DOMAIN g.ents /\ e.name # <<>>
  BY DEF FilesSound, Typed, Used
<1>2. /\ g2 \in Stores /\ g2.opens = g.opens /\ g.beg <= g2.beg
      /\ Len(g2.ents) = Len(g.ents)
      /\ \A j \in DOMAIN g.ents : j # i => g2.ents[j] = g.ents[j]
      /\ \A a \in 1 .. ArenaEnd : a < g.beg => g2.mem[a] = g.mem[a]
      /\ e2.name = e.name /\ e2.isdir = e.isdir /\ e2.written = e.written /\ e2.len = e.len
      /\ e2.borrowed = 0 /\ ArenaStart <= e2.data /\ e2.data + e2.cap <= g2.beg
      /\ end <= e2.cap /\ e2.len <= e2.cap
      /\ (e2.data = e.data /\ (e2.cap = e.cap \/ e.data + e.cap = g.beg)) \/ g.beg <= e2.data
      /\ \A k \in 0 .. e.len - 1 : g2.mem[e2.data + k] = g.mem[Base(e) + k]
  BY DEF Rehoused
<1>3. DOMAIN g.ents = 1 .. Len(g.ents) /\ DOMAIN g2.ents = DOMAIN g.ents
  BY <1>1, <1>2, StoreParts
<1>4. e \in Slots /\ e2 \in Slots /\ e2.data \in Nat /\ e2.cap \in Nat /\ e2.len \in Nat
      /\ e.data \in Nat /\ e.cap \in Nat /\ e.len \in Nat
      /\ g.beg \in Nat /\ g2.beg \in Nat /\ g2.beg <= ArenaEnd + 1 /\ g2.mem \in Memories
      /\ ArenaStart \in Nat \ {0} /\ ArenaEnd \in Nat /\ ArenaStart <= g.beg
  BY <1>1, <1>2, <1>3, StoreParts
<1>5. Len(src) \in Nat /\ Len(src) # 0 /\ end \in Nat \ {0}
  BY EmptySeq
<1> HIDE DEF e, e2, end
<1>60. /\ g.beg <= g2.beg /\ ArenaStart <= e2.data /\ e2.data + e2.cap <= g2.beg
       /\ end <= e2.cap /\ e2.len <= e2.cap /\ e2.len = e.len
       /\ (e2.data = e.data /\ (e2.cap = e.cap \/ e.data + e.cap = g.beg)) \/ g.beg <= e2.data
  BY <1>2
<1>6. e2.data >= 1 /\ e2.data + e2.cap <= ArenaEnd + 1 /\ e2.cap >= 1 /\ e2.data # 0
  <2>1. e2.data >= 1 /\ e2.data # 0
    BY <1>4, <1>60
  <2>2. e2.data + e2.cap <= ArenaEnd + 1
    BY <1>4, <1>60
  <2>3. e2.cap >= 1
    BY <1>4, <1>5, <1>60
  <2> QED BY <2>1, <2>2, <2>3
<1> USE DEF e, e2, end
<1>7. /\ m \in Memories
      /\ \A a \in 1 .. ArenaEnd : a < e2.data \/ a >= e2.data + e2.cap => m[a] = g2.mem[a]
      /\ \A k \in 0 .. e2.cap - 1 : k < e2.len \/ k < end =>
           m[e2.data + k] = IF k >= pos /\ k < end THEN src[k - pos + 1]
                            ELSE IF k < e2.len THEN g2.mem[e2.data + k] ELSE 0
  <2>1. end <= e2.cap /\ e2.len <= e2.cap
    BY <1>2
  <2> HIDE DEF e2
  <2>2. LET mm == LaidAt(GapFilled(g2.mem, e2, pos), e2.data + pos, src) IN
         /\ mm \in Memories
         /\ \A a \in 1 .. ArenaEnd : a < e2.data \/ a >= e2.data + e2.cap => mm[a] = g2.mem[a]
         /\ \A k \in 0 .. e2.cap - 1 : k < e2.len \/ k < pos + Len(src) =>
              mm[e2.data + k] = IF k >= pos /\ k < pos + Len(src) THEN src[k - pos + 1]
                              ELSE IF k < e2.len THEN g2.mem[e2.data + k] ELSE 0
    BY <1>4, <1>6, <2>1, WrittenBytes
  <2> QED BY <2>2
<1>8. Base(e2) = e2.data
  BY <1>6 DEF Base
<1>9. Over(g2, h, i, pos, src) = g3
  BY <1>8 DEF Over
<1> HIDE DEF m
<1>10. o3 \in [1 .. MAX_OPEN -> Openings]
  <2>1. g2.opens \in [1 .. MAX_OPEN -> Openings]
    BY <1>2, StoreParts
  <2>2. [g2.opens[h] EXCEPT !.pos = end] \in Openings
    BY <1>5, <2>1 DEF Openings
  <2> QED BY <2>1, <2>2
<1> HIDE DEF o3
<1>11. /\ gm \in Stores /\ gm.ents = g2.ents /\ gm.beg = g2.beg /\ gm.mem = m /\ gm.opens = o3
  BY <1>2, <1>7, <1>10 DEF Stores, Memories
<1>12. /\ e3 \in Slots /\ e3.name = e2.name /\ e3.isdir = e2.isdir /\ e3.written = e2.written
       /\ e3.borrowed = e2.borrowed /\ e3.data = e2.data /\ e3.cap = e2.cap /\ e3.len = len3
  BY <1>4, <1>5 DEF Slots
<1> HIDE DEF gm, e3
<1>13. /\ g3 \in Stores /\ g3.opens = gm.opens /\ g3.mem = gm.mem /\ g3.beg = gm.beg
       /\ Len(g3.ents) = Len(gm.ents) /\ DOMAIN g3.ents = DOMAIN gm.ents /\ g3.ents[i] = e3
       /\ \A j \in DOMAIN gm.ents : j # i => g3.ents[j] = gm.ents[j]
  BY <1>1, <1>3, <1>11, <1>12, SlotPut
<1> HIDE DEF g3
<1>14. /\ DOMAIN g3.ents = DOMAIN g.ents /\ Len(g3.ents) = Len(g.ents)
       /\ g3.mem = m /\ g3.beg = g2.beg /\ g3.opens = o3
       /\ \A j \in DOMAIN g.ents : j # i => g3.ents[j] = g.ents[j]
  BY <1>2, <1>3, <1>11, <1>13
<1>15. SameNames(g, g3)
  BY <1>2, <1>12, <1>13, <1>14 DEF SameNames
<1>16. ASSUME NEW j \in DOMAIN g.ents, j # i, g.ents[j].data # 0
       PROVE  LET f == g.ents[j] IN
              /\ f.data + f.cap <= e2.data \/ e2.data + e2.cap <= f.data
              /\ f.data + f.cap <= g.beg
  <2> DEFINE f == g.ents[j]
  <2>1. f.data \in Nat /\ f.cap \in Nat
    BY <1>1, StoreParts
  <2>2. SlotSound(f, g.beg) /\ SlotSound(e, g.beg) /\ SpansApart(e, f)
    BY <1>1, <1>16 DEF BytesSound
  <2>3. f.data + f.cap <= g.beg /\ f.cap >= 1
    BY <1>16, <2>2 DEF SlotSound
  <2>4. e.data # 0 => e.cap >= 1 /\ (e.data + e.cap <= f.data \/ f.data + f.cap <= e.data)
    BY <1>16, <2>2 DEF SlotSound, SpansApart
  <2> HIDE DEF f, e, e2
  <2>5. f.data + f.cap <= e2.data \/ e2.data + e2.cap <= f.data
    <3>1. f.data # 0
      BY <1>16 DEF f
    <3>2. CASE g.beg <= e2.data
      <4>1. f.data + f.cap <= e2.data
        BY <1>4, <2>1, <2>3, <3>2
      <4> QED BY <4>1
    <3>3. CASE e2.data = e.data /\ e2.cap = e.cap
      BY <1>6, <2>4, <3>1, <3>3
    <3>4. CASE e2.data = e.data /\ e.data + e.cap = g.beg
      BY <1>4, <1>6, <2>1, <2>3, <2>4, <3>1, <3>4
    <3> QED BY <1>60, <3>2, <3>3, <3>4
  <2> QED BY <2>3, <2>5 DEF f
<1>17. \A j \in DOMAIN g.ents : j # i => SpansApart(e3, g.ents[j]) /\ SpansApart(g.ents[j], e3)
  BY <1>12, <1>16 DEF SpansApart
<1>18. \A j \in DOMAIN g.ents : j # i => Contents(g3, j) = Contents(g, j)
  <2> SUFFICES ASSUME NEW j \in DOMAIN g.ents, j # i PROVE Contents(g3, j) = Contents(g, j)
    OBVIOUS
  <2> DEFINE f == g.ents[j]
  <2>1. /\ Base(f) \in Nat
        /\ f.len # 0 => 1 <= Base(f) /\ Base(f) + f.len <= g.beg
        /\ f.data # 0 => Base(f) = f.data /\ f.len <= f.cap
        /\ f.data = 0 /\ f.len # 0 => Base(f) + f.len <= ArenaStart
    BY <1>1, ContentsAre
  <2>2. f.data \in Nat /\ f.cap \in Nat /\ f.len \in Nat
    BY <1>1, StoreParts
  <2>3. f.data # 0 => f.data + f.cap <= e2.data \/ e2.data + e2.cap <= f.data
    BY <1>16
  <2>4. g3.ents[j] = f
    BY <1>14
  <2>5. ASSUME NEW a \in 1 .. ArenaEnd, a >= Base(f), a < Base(f) + f.len
        PROVE  g3.mem[a] = g.mem[a]
    <3> HIDE DEF f, e2, e
    <3>1. a < g.beg
      <4>1. f.len # 0
        BY <2>1, <2>5
      <4>2. Base(f) + f.len <= g.beg /\ Base(f) + f.len \in Nat
        BY <2>1, <2>2, <4>1
      <4> QED BY <1>4, <2>5, <4>2
    <3>2. a < e2.data \/ a >= e2.data + e2.cap
      <4>1. f.len # 0
        BY <2>1, <2>5
      <4>2. CASE f.data = 0
        <5>1. a < ArenaStart
          BY <1>4, <2>1, <2>2, <2>5, <4>1, <4>2
        <5> QED BY <1>4, <1>60, <5>1
      <4>3. CASE f.data # 0
        <5>1. a >= f.data /\ a < f.data + f.cap
          BY <2>1, <2>2, <2>5, <4>3
        <5>2. CASE f.data + f.cap <= e2.data
          <6>1. a < e2.data
            BY <1>4, <2>2, <5>1, <5>2
          <6> QED BY <6>1
        <5>3. CASE e2.data + e2.cap <= f.data
          <6>1. a >= e2.data + e2.cap
            <7>1. a \in Nat /\ e2.data + e2.cap \in Nat
              BY <1>4
            <7> QED BY <2>2, <5>1, <5>3, <7>1
          <6> QED BY <6>1
        <5> QED BY <2>3, <4>3, <5>2, <5>3
      <4> QED BY <4>2, <4>3
    <3> QED BY <1>2, <1>7, <1>14, <3>1, <3>2
  <2> QED BY <1>1, <1>13, <2>4, <2>5, ContentsStay
<1>19. Contents(g3, i) = Dir!Overlaid(Contents(g, i), pos, src)
  <2> DEFINE s == Contents(g, i)
  <2>1. Len(s) = e.len /\ s = [k \in 1 .. e.len |-> g.mem[Base(e) + k - 1]] /\ Base(e) \in Nat
    BY <1>1, ContentsAre
  <2>2. Contents(g3, i) = Bytes(m, e2.data, len3)
    <3>1. Base(e3) = e2.data
      BY <1>6, <1>12 DEF Base
    <3> QED BY <1>12, <1>13, <1>14, <3>1 DEF Contents
  <2>3. Contents(g3, i) = [k \in 1 .. len3 |-> m[e2.data + k - 1]]
    BY <2>2 DEF Bytes
  <2> HIDE DEF s
  <2>4. Dir!Overlaid(s, pos, src) =
          [x \in 1 .. len3 |-> IF x > pos /\ x <= end THEN src[x - pos]
                               ELSE IF x <= e.len THEN s[x] ELSE 0]
    BY <1>2, <2>1 DEF Dir!Overlaid
  <2>5. ASSUME NEW x \in 1 .. len3
        PROVE  m[e2.data + x - 1] = IF x > pos /\ x <= end THEN src[x - pos]
                                    ELSE IF x <= e.len THEN s[x] ELSE 0
    <3> DEFINE k == x - 1
    <3>1. x \in Nat /\ x >= 1 /\ x <= e2.cap /\ (x <= e2.len \/ x <= end)
      <4> HIDE DEF e2, end, e
      <4> QED BY <1>4, <1>5, <1>60
    <3>2. /\ k \in 0 .. e2.cap - 1 /\ (k < e2.len \/ k < end)
          /\ e2.data + x - 1 = e2.data + k /\ k - pos + 1 = x - pos
          /\ k >= pos <=> x > pos
          /\ k < end <=> x <= end
          /\ k < e2.len <=> x <= e2.len
      <4> HIDE DEF e2, end
      <4> QED BY <1>4, <1>5, <3>1
    <3> HIDE DEF k
    <3>3. m[e2.data + k] = IF x > pos /\ x <= end THEN src[x - pos]
                           ELSE IF x <= e2.len THEN g2.mem[e2.data + k] ELSE 0
      BY <1>7, <3>2
    <3>4. ASSUME x <= e.len PROVE g2.mem[e2.data + k] = s[x]
      <4>1. k \in 0 .. e.len - 1 /\ Base(e) + k = Base(e) + x - 1 /\ x \in 1 .. e.len
        <5> HIDE DEF e, e2
        <5> QED BY <1>4, <2>1, <3>1, <3>4 DEF k
      <4>2. g2.mem[e2.data + k] = g.mem[Base(e) + k]
        BY <1>2, <4>1
      <4> QED BY <2>1, <4>1, <4>2
    <3> QED BY <1>2, <3>2, <3>3, <3>4
  <2> QED BY <2>3, <2>4, <2>5 DEF s
<1>20. BytesSound(g3)
  <2>1. SlotSound(e3, g3.beg) /\ MarkSound(e3)
    <3>1. len3 <= e2.cap
      BY <1>2, <1>4, <1>5
    <3> HIDE DEF len3, e2, e
    <3>2. e3.name # <<>> /\ ~e3.isdir /\ e3.written
      BY <1>1, <1>2, <1>12 DEF e
    <3> QED BY <1>2, <1>6, <1>12, <1>14, <3>1, <3>2 DEF SlotSound, MarkSound
  <2>2. \A j \in DOMAIN g.ents : j # i => SlotSound(g3.ents[j], g3.beg) /\ MarkSound(g3.ents[j])
    <3> SUFFICES ASSUME NEW j \in DOMAIN g.ents, j # i
                 PROVE  SlotSound(g3.ents[j], g3.beg) /\ MarkSound(g3.ents[j])
      OBVIOUS
    <3>1. g3.ents[j] = g.ents[j] /\ SlotSound(g.ents[j], g.beg) /\ MarkSound(g.ents[j])
      BY <1>1, <1>14 DEF BytesSound
    <3>2. g.ents[j].data \in Nat /\ g.ents[j].cap \in Nat
      BY <1>1, StoreParts
    <3>3. SlotSound(g.ents[j], g2.beg)
      <4> DEFINE f == g.ents[j]
      <4>1. f.data # 0 => f.data + f.cap <= g2.beg
        <5>1. f.data # 0 => f.data + f.cap <= g.beg
          BY <3>1 DEF SlotSound
        <5> HIDE DEF f
        <5> QED BY <1>4, <1>60, <3>2, <5>1 DEF f
      <4> QED BY <3>1, <4>1 DEF SlotSound
    <3> QED BY <1>14, <3>1, <3>3
  <2>3. \A j, k \in DOMAIN g.ents : j # k => SpansApart(g3.ents[j], g3.ents[k])
    BY <1>1, <1>13, <1>14, <1>17 DEF BytesSound
  <2>4. \A a \in 1 .. ArenaStart - 1 : g3.mem[a] = CallerMem[a]
    <3> SUFFICES ASSUME NEW a \in 1 .. ArenaStart - 1 PROVE g3.mem[a] = CallerMem[a]
      OBVIOUS
    <3>1. a \in 1 .. ArenaEnd /\ a < g.beg /\ a < e2.data
      <4> HIDE DEF e2, e
      <4> QED BY <1>4, <1>60
    <3> QED BY <1>1, <1>2, <1>7, <1>14, <3>1 DEF BytesSound
  <2>5. \A j \in DOMAIN g3.ents : SlotSound(g3.ents[j], g3.beg) /\ MarkSound(g3.ents[j])
    BY <1>13, <1>14, <2>1, <2>2
  <2> QED BY <1>14, <2>3, <2>4, <2>5 DEF BytesSound
<1>21. FilesSound(g3)
  BY <1>1, <1>13, <1>14, <1>15, <1>20, SameNamesKeep DEF FilesSound, Typed
<1>22. g3.opens = [g.opens EXCEPT ![h].pos = pos + Len(src)]
  BY <1>2, <1>14 DEF o3
<1> QED BY <1>9, <1>15, <1>18, <1>19, <1>21, <1>22 DEF Wrote

-----------------------------------------------------------------------------
(* A slot given something else to hold, and no byte of memory changed.     *)

Put(g, g2, i, e) ==
  /\ Typed(g2) /\ BytesSound(g2)
  /\ g2.opens = g.opens /\ g2.mem = g.mem /\ g2.beg = g.beg
  /\ DOMAIN g2.ents = DOMAIN g.ents \cup {i} /\ g2.ents[i] = e
  /\ \A j \in DOMAIN g.ents : j # i => g2.ents[j] = g.ents[j]
  /\ \A j \in DOMAIN g.ents : j # i => Contents(g2, j) = Contents(g, j)

\* What may be put in slot i: bytes of its own only if they were the slot's before.
Fits(g, i, e) ==
  /\ e \in Slots /\ SlotSound(e, g.beg) /\ MarkSound(e)
  /\ e.data # 0 => i \in DOMAIN g.ents /\ e.data = g.ents[i].data /\ e.cap = g.ents[i].cap

(* What is put in one slot leaves the others' bytes alone.                 *)
LEMMA PutBytes ==
  ASSUME NEW g \in Stores, BytesSound(g), NEW g2 \in Stores, NEW i, NEW e, Fits(g, i, e),
         g2.mem = g.mem, g2.beg = g.beg,
         DOMAIN g2.ents = DOMAIN g.ents \cup {i}, g2.ents[i] = e,
         \A j \in DOMAIN g.ents : j # i => g2.ents[j] = g.ents[j]
  PROVE  /\ BytesSound(g2)
         /\ \A j \in DOMAIN g.ents : j # i => Contents(g2, j) = Contents(g, j)
<1>1. \A j \in DOMAIN g2.ents : SlotSound(g2.ents[j], g2.beg) /\ MarkSound(g2.ents[j])
  BY DEF BytesSound, Fits
<1>2. \A j, k \in DOMAIN g2.ents : j # k => SpansApart(g2.ents[j], g2.ents[k])
  <2> SUFFICES ASSUME NEW j \in DOMAIN g2.ents, NEW k \in DOMAIN g2.ents, j # k,
                      g2.ents[j].data # 0, g2.ents[k].data # 0
               PROVE  \/ g2.ents[j].data + g2.ents[j].cap <= g2.ents[k].data
                      \/ g2.ents[k].data + g2.ents[k].cap <= g2.ents[j].data
    BY DEF SpansApart
  <2>1. ASSUME NEW m \in {j, k}
        PROVE  m \in DOMAIN g.ents /\ g2.ents[m].data = g.ents[m].data
                 /\ g2.ents[m].cap = g.ents[m].cap
    <3>1. CASE m = i
      BY <3>1 DEF Fits
    <3>2. CASE m # i
      BY <3>2
    <3> QED BY <3>1, <3>2
  <2>2. SpansApart(g.ents[j], g.ents[k])
    BY <2>1 DEF BytesSound
  <2> QED BY <2>1, <2>2 DEF SpansApart
<1>3. BytesSound(g2)
  BY <1>1, <1>2 DEF BytesSound
<1>4. \A j \in DOMAIN g.ents : j # i => Contents(g2, j) = Contents(g, j)
  BY DEF Contents
<1> QED BY <1>3, <1>4

(* Put in a slot there is.                                                 *)
LEMMA PutOver ==
  ASSUME NEW g, Typed(g), BytesSound(g), NEW i \in DOMAIN g.ents, NEW e, Fits(g, i, e)
  PROVE  Put(g, [g EXCEPT !.ents[i] = e], i, e)
<1> DEFINE g2 == [g EXCEPT !.ents[i] = e]
<1>1. g \in Stores /\ Len(g.ents) <= MAX_ENTRIES /\ e \in Slots
  BY DEF Typed, Fits
<1>2. /\ g2 \in Stores /\ g2.opens = g.opens /\ g2.mem = g.mem /\ g2.beg = g.beg
      /\ Len(g2.ents) = Len(g.ents) /\ DOMAIN g2.ents = DOMAIN g.ents /\ g2.ents[i] = e
      /\ \A j \in DOMAIN g.ents : j # i => g2.ents[j] = g.ents[j]
  BY <1>1, SlotPut
<1> HIDE DEF g2
<1>3. DOMAIN g2.ents = DOMAIN g.ents \cup {i}
  BY <1>2
<1>4. /\ BytesSound(g2)
      /\ \A j \in DOMAIN g.ents : j # i => Contents(g2, j) = Contents(g, j)
  BY <1>1, <1>2, <1>3, PutBytes
<1> QED BY <1>1, <1>2, <1>3, <1>4 DEF Put, Typed, g2

(* Put in a slot more.                                                     *)
LEMMA PutAfter ==
  ASSUME NEW g, Typed(g), BytesSound(g), Len(g.ents) # MAX_ENTRIES, NEW e,
         Fits(g, Len(g.ents) + 1, e)
  PROVE  Put(g, [g EXCEPT !.ents = Append(@, e)], Len(g.ents) + 1, e)
<1> DEFINE s2 == Append(g.ents, e)
           g2 == [g EXCEPT !.ents = Append(@, e)]
           i == Len(g.ents) + 1
<1>1. g \in Stores /\ Len(g.ents) <= MAX_ENTRIES /\ e \in Slots /\ MAX_ENTRIES \in Nat
  BY MemConstants DEF Typed, Fits
<1>2. g.ents \in Seq(Slots) /\ Len(g.ents) \in Nat
  BY <1>1, StoreParts
<1>3. s2 \in Seq(Slots) /\ Len(s2) = Len(g.ents) + 1 /\ s2[i] = e
      /\ \A j \in 1 .. Len(g.ents) : s2[j] = g.ents[j]
  BY <1>1, <1>2
<1> HIDE DEF s2
<1>4. g2 = [g EXCEPT !.ents = s2]
  BY DEF s2
<1>5. g2 \in Stores /\ g2.opens = g.opens /\ g2.mem = g.mem /\ g2.beg = g.beg /\ g2.ents = s2
  BY <1>1, <1>3, <1>4 DEF Stores
<1> HIDE DEF g2
<1>6. DOMAIN g2.ents = DOMAIN g.ents \cup {i} /\ i \notin DOMAIN g.ents
  <2>1. DOMAIN g2.ents = 1 .. Len(g.ents) + 1 /\ DOMAIN g.ents = 1 .. Len(g.ents)
    BY <1>1, <1>3, <1>5, StoreParts
  <2> QED BY <1>2, <2>1
<1>7. g2.ents[i] = e /\ \A j \in DOMAIN g.ents : j # i => g2.ents[j] = g.ents[j]
  BY <1>1, <1>3, <1>5, StoreParts
<1> HIDE DEF i
<1>8. Fits(g, i, e)
  BY DEF i
<1>9. /\ BytesSound(g2)
      /\ \A j \in DOMAIN g.ents : j # i => Contents(g2, j) = Contents(g, j)
  BY <1>1, <1>5, <1>6, <1>7, <1>8, PutBytes
<1>10. Len(g2.ents) <= MAX_ENTRIES
  BY <1>1, <1>2, <1>3, <1>5
<1> QED BY <1>5, <1>6, <1>7, <1>9, <1>10 DEF Put, Typed, g2, i

(* A name more, or the same name on something else.                        *)
LEMMA PutNames ==
  ASSUME NEW g, FilesSound(g), NEW i, NEW e, NEW g2, Put(g, g2, i, e),
         e.name # <<>>, Standing(g, e.name),
         \A j \in Used(g) : j # i => g.ents[j].name # e.name,
         i \in Used(g) => e.name = g.ents[i].name /\ e.isdir = g.ents[i].isdir
  PROVE  /\ FilesSound(g2) /\ i \in Used(g2) /\ Used(g2) = Used(g) \cup {i}
         /\ \A j \in Used(g) : g2.ents[j].name = g.ents[j].name /\ g2.ents[j].isdir = g.ents[j].isdir
         /\ DirOf(g2) = Dir!With(DirOf(g), e.name, Shown(g2, i))
<1>1. g \in Stores /\ NamesSound(g) /\ BytesSound(g) /\ g2 \in Stores
  BY DEF FilesSound, Typed, Put
<1>2. Used(g2) = Used(g) \cup {i}
  BY DEF Put, Used
<1>3. \A j \in Used(g) : g2.ents[j].name = g.ents[j].name /\ g2.ents[j].isdir = g.ents[j].isdir
  <2> SUFFICES ASSUME NEW j \in Used(g)
               PROVE  g2.ents[j].name = g.ents[j].name /\ g2.ents[j].isdir = g.ents[j].isdir
    OBVIOUS
  <2>1. j \in DOMAIN g.ents
    BY <1>1, UsedAre
  <2> QED BY <2>1 DEF Put
<1>4. g2.ents[i] = e /\ \A j \in Used(g) : j # i => g2.ents[j].name # e.name
  BY <1>3 DEF Put
<1>5. \A j, k \in Used(g2) : g2.ents[j].name = g2.ents[k].name => j = k
  BY <1>1, <1>2, <1>3, <1>4 DEF NamesSound
<1>6. ASSUME NEW name, IsDir(g, name)
      PROVE  IsDir(g2, name)
  <2>1. PICK j \in Used(g) : g.ents[j].name = name /\ g.ents[j].isdir
    BY <1>1, <1>6, IsDirIs
  <2>2. j \in Used(g2) /\ g2.ents[j].name = name /\ g2.ents[j].isdir
    BY <1>2, <1>3, <2>1
  <2>3. Found(g2, name) # 0 /\ Found(g2, name) \in Used(g2) /\ g2.ents[Found(g2, name)].name = name
    BY <1>1, <2>2, FoundIs
  <2>4. Found(g2, name) = j
    BY <1>5, <2>2, <2>3
  <2> QED BY <2>2, <2>3, <2>4 DEF IsDir
<1>7. NamesSound(g2)
  <2>1. \A j \in Used(g2) : Standing(g2, g2.ents[j].name)
    BY <1>1, <1>2, <1>3, <1>4, <1>6 DEF NamesSound, Standing
  <2> QED BY <1>5, <2>1 DEF NamesSound
<1>8. FilesSound(g2)
  BY <1>7 DEF FilesSound, Put
<1>9. Taken(g2) = Taken(g) \cup {e.name}
  BY <1>2, <1>3, <1>4 DEF Taken
<1> DEFINE D == Dir!With(DirOf(g), e.name, Shown(g2, i))
<1>10. D = [z \in Taken(g2) |-> IF z = e.name THEN Shown(g2, i) ELSE DirOf(g)[z]]
  BY <1>1, <1>9, DirIs DEF Dir!With
<1> HIDE DEF D
<1>11. ASSUME NEW j \in Used(g2)
       PROVE  D[g2.ents[j].name] = Shown(g2, j)
  <2>1. g2.ents[j].name \in Taken(g2)
    BY DEF Taken
  <2>2. CASE j = i
    BY <1>4, <1>10, <2>1, <2>2
  <2>3. CASE j # i
    <3>1. j \in Used(g) /\ g2.ents[j].name = g.ents[j].name /\ g2.ents[j].name # e.name
      BY <1>2, <1>3, <1>4, <2>3
    <3>2. D[g2.ents[j].name] = DirOf(g)[g.ents[j].name]
      BY <1>10, <2>1, <3>1
    <3>3. DirOf(g)[g.ents[j].name] = Shown(g, j)
      BY <1>1, <3>1, DirIs
    <3>4. Shown(g2, j) = Shown(g, j)
      BY <1>1, <1>3, <2>3, <3>1, UsedAre DEF Put, Shown
    <3> QED BY <3>2, <3>3, <3>4
  <2> QED BY <2>2, <2>3
<1>12. D = [z \in Taken(g2) |-> D[z]]
  BY <1>10
<1>13. DirOf(g2) = D
  BY <1>1, <1>7, <1>11, <1>12, DirEq
<1>14. i \in Used(g2)
  BY <1>2
<1> QED BY <1>2, <1>3, <1>8, <1>13, <1>14 DEF D

(* A name less: nothing is left in what was removed.                       *)
LEMMA DropNames ==
  ASSUME NEW g, FilesSound(g), NEW i \in Used(g), NEW g2, Put(g, g2, i, Blank),
         g.ents[i].isdir => \A j \in Used(g) : Front(g.ents[j].name) # g.ents[i].name
  PROVE  /\ FilesSound(g2) /\ Used(g2) = Used(g) \ {i}
         /\ \A j \in Used(g2) : g2.ents[j].name = g.ents[j].name /\ g2.ents[j].isdir = g.ents[j].isdir
         /\ DirOf(g2) = Dir!Without(DirOf(g), g.ents[i].name)
<1> DEFINE n == g.ents[i].name
<1>1. g \in Stores /\ NamesSound(g) /\ BytesSound(g) /\ g2 \in Stores
  BY DEF FilesSound, Typed, Put
<1>2. Used(g) \subseteq DOMAIN g.ents /\ g2.ents[i].name = <<>>
  BY <1>1, UsedAre DEF Put, Blank
<1>3. Used(g2) = Used(g) \ {i}
  BY <1>2 DEF Put, Used
<1>4. \A j \in Used(g2) : /\ g2.ents[j] = g.ents[j] /\ j \in Used(g) /\ j # i /\ j \in DOMAIN g.ents
                          /\ g.ents[j].name # n
  BY <1>1, <1>2, <1>3 DEF Put, NamesSound
<1>5. \A j, k \in Used(g2) : g2.ents[j].name = g2.ents[k].name => j = k
  BY <1>1, <1>4 DEF NamesSound
<1>6. ASSUME NEW name, IsDir(g, name), name # n
      PROVE  IsDir(g2, name)
  <2>1. PICK j \in Used(g) : g.ents[j].name = name /\ g.ents[j].isdir
    BY <1>1, <1>6, IsDirIs
  <2>2. j \in Used(g2) /\ g2.ents[j].name = name /\ g2.ents[j].isdir
    BY <1>3, <1>4, <1>6, <2>1
  <2>3. Found(g2, name) # 0 /\ Found(g2, name) \in Used(g2) /\ g2.ents[Found(g2, name)].name = name
    BY <1>1, <2>2, FoundIs
  <2>4. Found(g2, name) = j
    BY <1>5, <2>2, <2>3
  <2> QED BY <2>2, <2>3, <2>4 DEF IsDir
<1>7. ASSUME NEW j \in Used(g2)
      PROVE  Standing(g2, g2.ents[j].name)
  <2>1. g2.ents[j].name = g.ents[j].name /\ j \in Used(g) /\ Standing(g, g.ents[j].name)
    BY <1>1, <1>4 DEF NamesSound
  <2>2. ASSUME IsDir(g, Front(g.ents[j].name)) PROVE Front(g.ents[j].name) # n
    <3>1. PICK k \in Used(g) : g.ents[k].name = Front(g.ents[j].name) /\ g.ents[k].isdir
      BY <1>1, <2>2, IsDirIs
    <3>2. g.ents[k].name = n => k = i
      BY <1>1 DEF NamesSound
    <3> QED BY <2>1, <3>1, <3>2
  <2> QED BY <1>6, <2>1, <2>2 DEF Standing
<1>8. NamesSound(g2)
  BY <1>5, <1>7 DEF NamesSound
<1>9. FilesSound(g2)
  BY <1>8 DEF FilesSound, Put
<1>10. Taken(g2) = Taken(g) \ {n}
  <2>1. Taken(g2) = {g.ents[j].name : j \in Used(g) \ {i}}
    BY <1>3, <1>4 DEF Taken
  <2>2. \A j \in Used(g) \ {i} : g.ents[j].name # n
    BY <1>3, <1>4
  <2> QED BY <2>1, <2>2 DEF Taken
<1> DEFINE D == Dir!Without(DirOf(g), n)
<1>11. D = [z \in Taken(g2) |-> DirOf(g)[z]]
  BY <1>1, <1>10, DirIs DEF Dir!Without
<1> HIDE DEF D
<1>12. ASSUME NEW j \in Used(g2)
       PROVE  D[g2.ents[j].name] = Shown(g2, j)
  <2>1. g2.ents[j].name \in Taken(g2)
    BY DEF Taken
  <2>2. D[g2.ents[j].name] = DirOf(g)[g.ents[j].name]
    BY <1>4, <1>11, <2>1
  <2>3. DirOf(g)[g.ents[j].name] = Shown(g, j)
    BY <1>1, <1>4, DirIs
  <2>4. Shown(g2, j) = Shown(g, j)
    BY <1>4 DEF Put, Shown
  <2> QED BY <2>2, <2>3, <2>4
<1>13. D = [z \in Taken(g2) |-> D[z]]
  BY <1>11
<1>14. DirOf(g2) = D
  BY <1>1, <1>8, <1>12, <1>13, DirEq
<1> QED BY <1>3, <1>4, <1>9, <1>14 DEF D

(* A file under another name.                                              *)
LEMMA RenameNames ==
  ASSUME NEW g, FilesSound(g), NEW i \in Used(g), ~g.ents[i].isdir,
         NEW b, b # <<>>, b \notin Taken(g), Standing(g, b),
         NEW g2, Put(g, g2, i, [g.ents[i] EXCEPT !.name = b])
  PROVE  /\ FilesSound(g2) /\ Used(g2) = Used(g)
         /\ \A j \in Used(g) : /\ g2.ents[j].name = IF j = i THEN b ELSE g.ents[j].name
                               /\ g2.ents[j].isdir = g.ents[j].isdir
         /\ DirOf(g2) = Dir!With(Dir!Without(DirOf(g), g.ents[i].name), b,
                                 DirOf(g)[g.ents[i].name])
<1> DEFINE a == g.ents[i].name
           e == [g.ents[i] EXCEPT !.name = b]
<1>1. g \in Stores /\ NamesSound(g) /\ BytesSound(g) /\ g2 \in Stores
  BY DEF FilesSound, Typed, Put
<1>2. Used(g) \subseteq DOMAIN g.ents /\ g.ents[i] \in Slots
  BY <1>1, UsedAre, StoreParts
<1>3. /\ e.name = b /\ e.isdir = g.ents[i].isdir /\ e.borrowed = g.ents[i].borrowed
      /\ e.data = g.ents[i].data /\ e.len = g.ents[i].len
  BY <1>2 DEF Slots
<1>4. g2.ents[i] = e
  BY DEF Put
<1> HIDE DEF e
<1>5. Used(g2) = Used(g)
  BY <1>2, <1>3, <1>4 DEF Put, Used
<1>6. \A j \in Used(g) : j # i => g2.ents[j] = g.ents[j] /\ j \in DOMAIN g.ents
  BY <1>2 DEF Put
<1>7. \A j \in Used(g) : /\ g2.ents[j].name = IF j = i THEN b ELSE g.ents[j].name
                         /\ g2.ents[j].isdir = g.ents[j].isdir
  BY <1>3, <1>4, <1>6
<1>8. \A j \in Used(g) : g.ents[j].name # b
  BY DEF Taken
<1>9. \A j, k \in Used(g2) : g2.ents[j].name = g2.ents[k].name => j = k
  BY <1>1, <1>5, <1>7, <1>8 DEF NamesSound
<1>10. ASSUME NEW name, IsDir(g, name)
       PROVE  IsDir(g2, name)
  <2>1. PICK j \in Used(g) : g.ents[j].name = name /\ g.ents[j].isdir
    BY <1>1, <1>10, IsDirIs
  <2>2. j \in Used(g2) /\ g2.ents[j].name = name /\ g2.ents[j].isdir
    BY <1>5, <1>7, <2>1
  <2>3. Found(g2, name) # 0 /\ Found(g2, name) \in Used(g2) /\ g2.ents[Found(g2, name)].name = name
    BY <1>1, <2>2, FoundIs
  <2>4. Found(g2, name) = j
    BY <1>9, <2>2, <2>3
  <2> QED BY <2>2, <2>3, <2>4 DEF IsDir
<1>11. NamesSound(g2)
  <2>1. \A j \in Used(g2) : Standing(g2, g2.ents[j].name)
    BY <1>1, <1>5, <1>7, <1>10 DEF NamesSound, Standing
  <2> QED BY <1>9, <2>1 DEF NamesSound
<1>12. FilesSound(g2)
  BY <1>11 DEF FilesSound, Put
<1>13. Taken(g2) = (Taken(g) \ {a}) \cup {b}
  <2>1. \A j \in Used(g) : j # i => g.ents[j].name # a
    BY <1>1 DEF NamesSound
  <2>2. Taken(g2) = {IF j = i THEN b ELSE g.ents[j].name : j \in Used(g)}
    BY <1>5, <1>7 DEF Taken
  <2> HIDE DEF a
  <2> QED BY <2>1, <2>2 DEF Taken, a
<1> DEFINE D == Dir!With(Dir!Without(DirOf(g), a), b, DirOf(g)[a])
<1>14. D = [z \in Taken(g2) |-> IF z = b THEN DirOf(g)[a] ELSE DirOf(g)[z]]
  <2>1. Dir!Without(DirOf(g), a) = [z \in Taken(g) \ {a} |-> DirOf(g)[z]]
    BY <1>1, DirIs DEF Dir!Without
  <2> QED BY <1>13, <2>1 DEF Dir!With
<1> HIDE DEF D
<1>15. ASSUME NEW j \in Used(g2)
       PROVE  D[g2.ents[j].name] = Shown(g2, j)
  <2>1. g2.ents[j].name \in Taken(g2)
    BY DEF Taken
  <2>2. CASE j = i
    <3>1. D[g2.ents[j].name] = DirOf(g)[a]
      BY <1>5, <1>7, <1>14, <2>1, <2>2
    <3>2. DirOf(g)[a] = Shown(g, i)
      BY <1>1, DirIs
    <3>3. Contents(g2, i) = Contents(g, i)
      BY <1>3, <1>4 DEF Put, Contents, Base
    <3> QED BY <1>3, <1>4, <2>2, <3>1, <3>2, <3>3 DEF Shown
  <2>3. CASE j # i
    <3>1. j \in Used(g) /\ g2.ents[j].name = g.ents[j].name /\ g2.ents[j].name # b
      BY <1>5, <1>7, <1>8, <2>3
    <3>2. D[g2.ents[j].name] = DirOf(g)[g.ents[j].name]
      BY <1>14, <2>1, <3>1
    <3>3. DirOf(g)[g.ents[j].name] = Shown(g, j)
      BY <1>1, <3>1, DirIs
    <3>4. Shown(g2, j) = Shown(g, j)
      BY <1>6, <2>3, <3>1 DEF Put, Shown
    <3> QED BY <3>2, <3>3, <3>4
  <2> QED BY <2>2, <2>3
<1>16. D = [z \in Taken(g2) |-> D[z]]
  BY <1>14
<1>17. DirOf(g2) = D
  BY <1>1, <1>11, <1>15, <1>16, DirEq
<1> QED BY <1>5, <1>7, <1>12, <1>17 DEF D

-----------------------------------------------------------------------------
(* The directory is full when no slot is free and no more may be made.     *)

(* Names are as many as slots in use.                                      *)
LEMMA FullIs ==
  ASSUME NEW g, FilesSound(g)
  PROVE  Cardinality(Taken(g)) = MAX_ENTRIES
           <=> Used(g) = DOMAIN g.ents /\ Len(g.ents) = MAX_ENTRIES
<1> DEFINE f == [i \in Used(g) |-> g.ents[i].name]
           D == DOMAIN g.ents
<1>1. g \in Stores /\ Len(g.ents) <= MAX_ENTRIES /\ NamesSound(g) /\ MAX_ENTRIES \in Nat
  BY MemConstants DEF FilesSound, Typed
<1>2. D = 1 .. Len(g.ents) /\ Len(g.ents) \in Nat /\ Used(g) \in SUBSET D
  BY <1>1, StoreParts, UsedAre
<1>3. IsFiniteSet(D) /\ Cardinality(D) = Len(g.ents)
  <2>1. IsFiniteSet(1 .. Len(g.ents)) /\ Cardinality(1 .. Len(g.ents)) = Len(g.ents)
    BY <1>2, FS_Interval
  <2> QED BY <1>2, <2>1
<1> HIDE DEF D
<1>4. IsFiniteSet(Used(g)) /\ Cardinality(Used(g)) <= Cardinality(D)
      /\ (Cardinality(D) = Cardinality(Used(g)) => D = Used(g))
  BY <1>2, <1>3, FS_Subset
<1>5. f \in Surjection(Used(g), Taken(g)) /\ f \in Injection(Used(g), Taken(g))
  <2>1. f \in [Used(g) -> Taken(g)]
    BY DEF Taken
  <2>2. \A n \in Taken(g) : \E i \in Used(g) : f[i] = n
    BY DEF Taken
  <2>3. \A i, j \in Used(g) : f[i] = f[j] => i = j
    BY <1>1 DEF NamesSound
  <2> QED BY <2>1, <2>2, <2>3 DEF Surjection, Injection, IsInjective
<1>6. Cardinality(Taken(g)) = Cardinality(Used(g))
  BY <1>4, <1>5, FS_Surjection
<1>7. Cardinality(Used(g)) \in Nat
  BY <1>4, FS_CardinalityType
<1> QED BY <1>1, <1>2, <1>3, <1>4, <1>6, <1>7 DEF D

NewSlot(name, isdir) == [Blank EXCEPT !.name = name, !.isdir = isdir]

SlotFor(g, q, new) ==
  /\ q.r = 0 <=> Cardinality(Taken(g)) = MAX_ENTRIES
  /\ q.r # 0 =>
       \/ /\ q.r \in DOMAIN g.ents /\ q.r \notin Used(g)
          /\ q.fs = [g EXCEPT !.ents[q.r] = new]
       \/ /\ q.r = Len(g.ents) + 1 /\ Len(g.ents) # MAX_ENTRIES
          /\ q.fs = [g EXCEPT !.ents = Append(@, new)]

(* new_ent takes a free slot, or one more.                                 *)
LEMMA NewEntIs ==
  ASSUME NEW g, FilesSound(g), NEW name, NEW isdir
  PROVE  SlotFor(g, NewEnt(g, name, isdir), NewSlot(name, isdir))
<1> DEFINE free == DOMAIN g.ents \ Used(g)
           new == NewSlot(name, isdir)
           q == NewEnt(g, name, isdir)
<1>1. g \in Stores
  BY DEF FilesSound, Typed
<1>2. DOMAIN g.ents = 1 .. Len(g.ents) /\ Len(g.ents) \in Nat /\ Used(g) \subseteq DOMAIN g.ents
  BY <1>1, StoreParts, UsedAre
<1>3. q = IF free # {}
          THEN Answered([g EXCEPT !.ents[Least(free)] = new], Least(free))
          ELSE IF Len(g.ents) = MAX_ENTRIES THEN Answered(g, 0)
          ELSE Answered([g EXCEPT !.ents = Append(@, new)], Len(g.ents) + 1)
  BY DEF NewEnt, NewSlot
<1> HIDE DEF q, new
<1>4. CASE free # {}
  <2>1. free \in SUBSET Nat
    BY <1>2
  <2>2. Least(free) \in free
    BY <1>4, <2>1, LeastIs
  <2>3. q.r = Least(free) /\ q.fs = [g EXCEPT !.ents[Least(free)] = new]
    BY <1>3, <1>4 DEF Answered
  <2>4. q.r \in DOMAIN g.ents /\ q.r \notin Used(g) /\ q.r # 0
    BY <1>2, <2>2, <2>3
  <2>5. Cardinality(Taken(g)) # MAX_ENTRIES
    BY <1>4, FullIs
  <2> QED BY <2>3, <2>4, <2>5 DEF q, new, SlotFor
<1>5. CASE free = {}
  <2>1. Used(g) = DOMAIN g.ents
    BY <1>2, <1>5
  <2>2. CASE Len(g.ents) = MAX_ENTRIES
    <3>1. q.r = 0
      BY <1>3, <1>5, <2>2 DEF Answered
    <3> QED BY <2>1, <2>2, <3>1, FullIs DEF q, SlotFor
  <2>3. CASE Len(g.ents) # MAX_ENTRIES
    <3>1. q.r = Len(g.ents) + 1 /\ q.fs = [g EXCEPT !.ents = Append(@, new)]
      BY <1>3, <1>5, <2>3 DEF Answered
    <3>2. q.r # 0
      BY <1>2, <3>1
    <3> QED BY <2>3, <3>1, <3>2, FullIs DEF q, new, SlotFor
  <2> QED BY <2>2, <2>3
<1> QED BY <1>4, <1>5

(* mem_resolve: a name there may be.                                       *)
LEMMA ResolvedIs ==
  ASSUME NEW g, NEW path \in Names
  PROVE  Resolved(g, path) \in Names /\ Standing(g, Resolved(g, path))
<1>1. CASE Len(path) > 1 /\ ~IsDir(g, Front(path))
  <2>1. Resolved(g, path) = <<Last(path)>>
    BY <1>1 DEF Resolved
  <2>2. Last(path) \in STRING
    BY <1>1 DEF Names, Last
  <2>3. <<Last(path)>> \in Names /\ Len(<<Last(path)>>) = 1
    BY <2>2 DEF Names
  <2> QED BY <2>1, <2>3 DEF Standing
<1>2. CASE ~(Len(path) > 1 /\ ~IsDir(g, Front(path)))
  BY <1>2 DEF Resolved, Standing
<1> QED BY <1>1, <1>2

(* A change of the open handles only.                                      *)
LEMMA OpensPut ==
  ASSUME NEW g, FilesSound(g), NEW o \in [1 .. MAX_OPEN -> Openings],
         NEW g2, g2 = [g EXCEPT !.opens = o]
  PROVE  /\ FilesSound(g2) /\ g2.opens = o /\ g2.ents = g.ents /\ g2.mem = g.mem
         /\ Used(g2) = Used(g) /\ DirOf(g2) = DirOf(g)
<1>1. g \in Stores
  BY DEF FilesSound, Typed
<1>2. /\ g2 \in Stores /\ g2.opens = o /\ g2.ents = g.ents /\ g2.mem = g.mem /\ g2.beg = g.beg
  BY <1>1 DEF Stores
<1>3. Used(g2) = Used(g)
  BY <1>2 DEF Used
<1>4. SameNames(g, g2)
  BY <1>2 DEF SameNames
<1>5. FilesSound(g2)
  BY <1>1, <1>2, <1>4, SameNamesKeep DEF FilesSound, Typed, BytesSound
<1>6. DirOf(g2) = DirOf(g)
  <2>1. \A n : Found(g2, n) = Found(g, n)
    BY <1>1, <1>2, <1>4, SameNamesKeep
  <2>2. \A i : Shown(g2, i) = Shown(g, i)
    BY <1>2 DEF Shown, Contents
  <2>3. Taken(g2) = Taken(g)
    BY <1>2, <1>3 DEF Taken
  <2>4. \A n \in Taken(g) : DirOf(g2)[n] = DirOf(g)[n]
    BY <1>1, <1>2, <1>5, <2>1, <2>2, <2>3, DirIs DEF FilesSound
  <2>5. DirOf(g2) = [n \in Taken(g) |-> DirOf(g2)[n]] /\ DirOf(g) = [n \in Taken(g) |-> DirOf(g)[n]]
    BY <2>3 DEF DirOf, Taken
  <2> QED BY <2>4, <2>5
<1> QED BY <1>2, <1>3, <1>5, <1>6

-----------------------------------------------------------------------------
(* fs_open, up to the handle: refused for DirSpec's reasons, or a file     *)
(* that is there, emptied or made if that was asked.                       *)

Refused(g, name, disposition) ==
  IF name = <<>> \/ IsDir(g, name)
    THEN IF name = <<>> /\ disposition = "EXISTING" THEN NOTFOUND ELSE ACCESS
  ELSE IF name \in Taken(g)
    THEN IF disposition = "CREATE_NEW" THEN ACCESS ELSE 0
  ELSE IF disposition = "EXISTING" THEN NOTFOUND
  ELSE IF Cardinality(Taken(g)) = MAX_ENTRIES THEN ACCESS ELSE 0

Ready(g, g1, i, name, disposition) ==
  /\ FilesSound(g1) /\ g1.opens = g.opens
  /\ i \in Used(g1) /\ g1.ents[i].name = name /\ ~g1.ents[i].isdir
  /\ Used(g) \subseteq Used(g1)
  /\ \A k \in Used(g) : g1.ents[k].name = g.ents[k].name /\ g1.ents[k].isdir = g.ents[k].isdir
  /\ DirOf(g1) = IF disposition = "EXISTING" THEN DirOf(g)
                 ELSE Dir!With(DirOf(g), name, Dir!File(<<>>))

\* Emptied: e is what was in the slot or has just been made for it.
LEMMA EmptiedIs ==
  ASSUME NEW g, FilesSound(g), NEW i, NEW e \in Slots,
         e.name # <<>>, ~e.isdir, Standing(g, e.name),
         \A j \in Used(g) : j # i => g.ents[j].name # e.name,
         \/ i \in Used(g) /\ e = g.ents[i]
         \/ i \notin Used(g) /\ e.data = 0 /\ e.cap = 0,
         NEW g1, Put(g, g1, i, Truncated(e)), NEW disposition, disposition # "EXISTING"
  PROVE  Ready(g, g1, i, e.name, disposition)
<1> DEFINE t == Truncated(e)
<1>1. /\ t.name = e.name /\ t.isdir = e.isdir /\ t.len = 0
  BY DEF Truncated, Slots
<1> HIDE DEF t
<1>2. Put(g, g1, i, t)
  BY DEF t
<1>3. /\ FilesSound(g1) /\ i \in Used(g1) /\ Used(g1) = Used(g) \cup {i}
      /\ \A j \in Used(g) : g1.ents[j].name = g.ents[j].name /\ g1.ents[j].isdir = g.ents[j].isdir
      /\ DirOf(g1) = Dir!With(DirOf(g), t.name, Shown(g1, i))
  <2>1. i \in Used(g) => t.name = g.ents[i].name /\ t.isdir = g.ents[i].isdir
    BY <1>1
  <2>2. t.name # <<>> /\ Standing(g, t.name) /\ \A j \in Used(g) : j # i => g.ents[j].name # t.name
    BY <1>1
  <2> QED BY <1>2, <2>1, <2>2, PutNames
<1>4. g1.ents[i] = t /\ g1.opens = g.opens
  BY <1>2 DEF Put
<1>5. g1 \in Stores /\ BytesSound(g1) /\ i \in DOMAIN g1.ents
  BY <1>2, <1>3 DEF Put, Typed, Used
<1>6. Contents(g1, i) \in Seq(Octets) /\ Len(Contents(g1, i)) = 0
  BY <1>1, <1>4, <1>5, ContentsAre
<1>7. Contents(g1, i) = <<>>
  BY <1>6, EmptySeq
<1>8. Shown(g1, i) = Dir!File(<<>>)
  <2>1. e.isdir = FALSE
    BY DEF Slots
  <2> QED BY <1>1, <1>4, <1>7, <2>1 DEF Shown, Dir!File
<1> QED BY <1>1, <1>3, <1>4, <1>8 DEF Ready

(* A slot emptied may stand where it stood.                                *)
LEMMA EmptiedFits ==
  ASSUME NEW g, FilesSound(g), NEW i, NEW e \in Slots, e.name # <<>>, ~e.isdir,
         \/ i \in DOMAIN g.ents /\ e = g.ents[i]
         \/ e.data = 0 /\ e.cap = 0
  PROVE  Fits(g, i, Truncated(e))
<1> DEFINE t == Truncated(e)
<1>1. /\ t \in Slots /\ t.name = e.name /\ t.isdir = e.isdir /\ t.written /\ t.borrowed = 0
      /\ t.len = 0 /\ t.data = e.data /\ t.cap = e.cap /\ e.data \in Nat /\ e.cap \in Nat
  BY DEF Truncated, Slots
<1> HIDE DEF t
<1>2. MarkSound(t)
  BY <1>1 DEF MarkSound
<1>3. SlotSound(t, g.beg)
  <2>1. CASE e.data = 0 /\ e.cap = 0
    BY <1>1, <2>1 DEF SlotSound
  <2>2. CASE i \in DOMAIN g.ents /\ e = g.ents[i]
    <3>1. SlotSound(e, g.beg)
      BY <2>2 DEF FilesSound, BytesSound
    <3>2. t.data # 0 => ArenaStart <= t.data /\ t.data + t.cap <= g.beg /\ 1 <= t.cap
      BY <1>1, <3>1 DEF SlotSound
    <3>3. t.data # 0 => t.len <= t.cap
      BY <1>1
    <3>4. t.data = 0 => t.cap = 0
      BY <1>1, <3>1 DEF SlotSound
    <3> QED BY <1>1, <3>2, <3>3, <3>4 DEF SlotSound
  <2> QED BY <2>1, <2>2
<1>4. t.data # 0 => i \in DOMAIN g.ents /\ t.data = g.ents[i].data /\ t.cap = g.ents[i].cap
  BY <1>1
<1> QED BY <1>1, <1>2, <1>3, <1>4 DEF Fits, t

(* The slot just made holds what was put in it.                            *)
LEMMA MadeHolds ==
  ASSUME NEW g \in Stores, NEW q, NEW new \in Slots, SlotFor(g, q, new), q.r # 0
  PROVE  q.fs.ents[q.r] = new
<1>1. CASE q.r \in DOMAIN g.ents /\ q.fs = [g EXCEPT !.ents[q.r] = new]
  BY <1>1, SlotPut
<1>2. CASE q.r = Len(g.ents) + 1 /\ q.fs = [g EXCEPT !.ents = Append(@, new)]
  <2>1. q.fs.ents = Append(g.ents, new)
    BY <1>2 DEF Stores
  <2>2. Append(g.ents, new)[Len(g.ents) + 1] = new
    BY StoreParts
  <2> QED BY <1>2, <2>1, <2>2
<1> QED BY <1>1, <1>2 DEF SlotFor

(* A slot just made, with something put in it, is that put there at once.  *)
PutThere(g, r, g2, e) ==
  \/ r \in DOMAIN g.ents /\ r \notin Used(g) /\ g2 = [g EXCEPT !.ents[r] = e]
  \/ /\ r = Len(g.ents) + 1 /\ Len(g.ents) # MAX_ENTRIES /\ r \notin Used(g)
     /\ g2 = [g EXCEPT !.ents = Append(@, e)]

(* So what is made and then changed is as if put in at once.               *)
LEMMA MadeSlot ==
  ASSUME NEW g, FilesSound(g), NEW q, NEW new \in Slots, SlotFor(g, q, new), q.r # 0,
         NEW e \in Slots
  PROVE  PutThere(g, q.r, [q.fs EXCEPT !.ents[q.r] = e], e)
<1> DEFINE k == q.r
           g2 == [q.fs EXCEPT !.ents[k] = e]
<1>1. g \in Stores /\ g.ents \in Seq(Slots) /\ DOMAIN g.ents = 1 .. Len(g.ents)
      /\ Len(g.ents) \in Nat /\ Used(g) \subseteq DOMAIN g.ents
  BY StoreParts, UsedAre DEF FilesSound, Typed
<1>2. CASE k \in DOMAIN g.ents /\ k \notin Used(g) /\ q.fs = [g EXCEPT !.ents[k] = new]
  <2>1. q.fs = [g EXCEPT !.ents = [g.ents EXCEPT ![k] = new]]
    BY <1>2
  <2>2. q.fs.ents = [g.ents EXCEPT ![k] = new]
    BY <1>1, <2>1 DEF Stores
  <2>3. g2 = [q.fs EXCEPT !.ents = [q.fs.ents EXCEPT ![k] = e]]
    OBVIOUS
  <2>4. [q.fs.ents EXCEPT ![k] = e] = [g.ents EXCEPT ![k] = e]
    BY <2>2
  <2> HIDE DEF g2
  <2>5. g2 = [g EXCEPT !.ents[k] = e]
    BY <1>1, <2>1, <2>3, <2>4 DEF Stores
  <2> QED BY <1>2, <2>5 DEF g2, PutThere
<1>3. CASE k = Len(g.ents) + 1 /\ Len(g.ents) # MAX_ENTRIES /\ q.fs = [g EXCEPT !.ents = Append(@, new)]
  <2> DEFINE s == Append(g.ents, new)
             s2 == [s EXCEPT ![k] = e]
             a == Append(g.ents, e)
  <2>1. s \in Seq(Slots) /\ s[k] = new /\ Len(s) = k
        /\ \A j \in 1 .. Len(g.ents) : s[j] = g.ents[j]
    BY <1>1, <1>3
  <2> HIDE DEF s
  <2>2. k \in 1 .. Len(s) /\ k = Len(g.ents) + 1
    BY <1>1, <1>3, <2>1
  <2>3. s2 \in Seq(Slots) /\ Len(s2) = k /\ s2[k] = e
        /\ \A j \in 1 .. Len(g.ents) : s2[j] = g.ents[j]
    BY <1>1, <2>1, <2>2
  <2>4. a \in Seq(Slots) /\ Len(a) = k /\ a[k] = e
        /\ \A j \in 1 .. Len(g.ents) : a[j] = g.ents[j]
    BY <1>1, <2>2
  <2> HIDE DEF a, s2
  <2>5. a = s2
    <3>1. \A j \in 1 .. Len(a) : j \in 1 .. Len(g.ents) \/ j = k
      BY <1>1, <2>2, <2>4
    <3>2. \A j \in 1 .. Len(a) : a[j] = s2[j]
      BY <2>3, <2>4, <3>1
    <3> QED BY <2>3, <2>4, <3>2, SeqEqual
  <2>6. q.fs = [g EXCEPT !.ents = s]
    BY <1>3 DEF s
  <2>7. q.fs.ents = s
    BY <1>1, <2>6 DEF Stores
  <2>8. g2 = [q.fs EXCEPT !.ents = [s EXCEPT ![k] = e]]
    BY <2>7
  <2> HIDE DEF g2
  <2>9. g2 = [g EXCEPT !.ents = s2]
    BY <2>6, <2>8 DEF s2
  <2>10. k \notin Used(g)
    BY <1>1, <2>2
  <2> QED BY <1>3, <2>5, <2>9, <2>10 DEF a, g2, PutThere
<1> QED BY <1>2, <1>3 DEF SlotFor

\* The end of fs_open, from the slot the file has.
LEMMA MadeIs ==
  ASSUME NEW g, FilesSound(g), NEW name \in Names, name # <<>>, Standing(g, name),
         ~IsDir(g, name), NEW disposition, disposition # "EXISTING"
  PROVE  LET i    == Found(g, name)
             made == IF i # 0 THEN Answered(g, i) ELSE NewEnt(g, name, FALSE)
             g1   == [made.fs EXCEPT !.ents[made.r] = Truncated(@)]
         IN  /\ made.r = 0 <=> name \notin Taken(g) /\ Cardinality(Taken(g)) = MAX_ENTRIES
             /\ made.r # 0 => Ready(g, g1, made.r, name, disposition)
<1> DEFINE i == Found(g, name)
           made == IF i # 0 THEN Answered(g, i) ELSE NewEnt(g, name, FALSE)
           g1 == [made.fs EXCEPT !.ents[made.r] = Truncated(@)]
           new == NewSlot(name, FALSE)
<1>1. g \in Stores /\ Typed(g) /\ NamesSound(g) /\ BytesSound(g)
  BY DEF FilesSound, Typed
<1>2. name \in Taken(g) <=> i # 0
  BY <1>1, DirIs
<1>3. CASE i # 0
  <2>1. i \in Used(g) /\ g.ents[i].name = name
    BY <1>1, <1>3, FoundIs
  <2>2. i \in DOMAIN g.ents /\ g.ents[i] \in Slots /\ ~g.ents[i].isdir
    BY <1>1, <1>3, <2>1, UsedAre, StoreParts DEF IsDir
  <2>3. made.r = i /\ made.fs = g
    BY <1>3 DEF Answered
  <2>4. g1 = [g EXCEPT !.ents[i] = Truncated(g.ents[i])]
    BY <2>3
  <2> HIDE DEF i, made, g1
  <2>5. Fits(g, i, Truncated(g.ents[i]))
    BY <2>1, <2>2, EmptiedFits
  <2>6. Put(g, g1, i, Truncated(g.ents[i]))
    BY <1>1, <2>2, <2>4, <2>5, PutOver
  <2>7. \A j \in Used(g) : j # i => g.ents[j].name # name
    BY <1>1, <2>1 DEF NamesSound
  <2>8. Ready(g, g1, i, name, disposition)
    BY <2>1, <2>2, <2>6, <2>7, EmptiedIs
  <2> QED BY <1>2, <1>3, <2>3, <2>8 DEF i, made, g1
<1>4. CASE i = 0
  <2>1. made = NewEnt(g, name, FALSE)
    BY <1>4
  <2>2. SlotFor(g, made, new)
    BY <2>1, NewEntIs
  <2>3. /\ new \in Slots /\ new.name = name /\ ~new.isdir /\ new.data = 0 /\ new.cap = 0
    BY DEF Blank, Slots, NewSlot
  <2> HIDE DEF made, new, i
  <2>4. \A j \in Used(g) : g.ents[j].name # name
    BY <1>2, <1>4 DEF Taken
  <2>5. ASSUME made.r # 0
        PROVE  Ready(g, g1, made.r, name, disposition)
    <3> DEFINE k == made.r
    <3>1. g.ents \in Seq(Slots) /\ DOMAIN g.ents = 1 .. Len(g.ents) /\ Len(g.ents) \in Nat
          /\ Used(g) \subseteq DOMAIN g.ents
      BY <1>1, StoreParts, UsedAre
    <3>2. Fits(g, k, Truncated(new))
      BY <2>3, EmptiedFits
    <3>3. g1 = [made.fs EXCEPT !.ents[k] = Truncated(new)]
      <4>1. made.fs.ents[k] = new
        BY <1>1, <2>2, <2>3, <2>5, MadeHolds
      <4> QED BY <4>1
    <3> HIDE DEF g1
    <3>4. PutThere(g, k, g1, Truncated(new))
      BY <2>2, <2>3, <2>5, <3>2, <3>3, MadeSlot DEF Fits
    <3>5. Put(g, g1, k, Truncated(new)) /\ k \notin Used(g)
      BY <1>1, <3>2, <3>4, PutOver, PutAfter DEF PutThere
    <3>6. Ready(g, g1, k, new.name, disposition)
      BY <2>3, <2>4, <3>5, EmptiedIs
    <3> QED BY <2>3, <3>6
  <2> QED BY <1>2, <1>4, <2>2, <2>5 DEF made, i, SlotFor
<1> QED BY <1>3, <1>4

(* fs_open refuses for DirSpec's reasons, or comes to its handle.          *)
LEMMA FsOpenIs ==
  ASSUME NEW g, FilesSound(g), NEW path \in Names, NEW access,
         NEW disposition \in {"EXISTING", "CREATE", "CREATE_NEW"}
  PROVE  LET name == Resolved(g, path)
             why  == Refused(g, name, disposition)
             got  == fs_open(g, path, access, disposition)
         IN  /\ why # 0 => got = Answered(g, why)
             /\ why = 0 => \E g1, i : /\ Ready(g, g1, i, name, disposition)
                                      /\ got = Handed(g1, i, access)
<1> DEFINE name == Resolved(g, path)
           why  == Refused(g, name, disposition)
           got  == fs_open(g, path, access, disposition)
           i    == Found(g, name)
           made == IF i # 0 THEN Answered(g, i) ELSE NewEnt(g, name, FALSE)
           g1   == [made.fs EXCEPT !.ents[made.r] = Truncated(@)]
<1>1. g \in Stores /\ NamesSound(g) /\ name \in Names /\ Standing(g, name)
  BY ResolvedIs DEF FilesSound, Typed
<1>2. name \in Taken(g) <=> i # 0
  BY <1>1, DirIs
<1>3. IsDir(g, name) <=> i # 0 /\ g.ents[i].isdir
  BY DEF IsDir
<1>4. got = IF name = <<>>
              THEN Answered(g, IF disposition = "EXISTING" THEN NOTFOUND ELSE ACCESS)
            ELSE IF i # 0 /\ g.ents[i].isdir THEN Answered(g, ACCESS)
            ELSE IF disposition = "EXISTING"
              THEN IF i = 0 THEN Answered(g, NOTFOUND) ELSE Handed(g, i, access)
            ELSE IF disposition = "CREATE_NEW" /\ i # 0 THEN Answered(g, ACCESS)
            ELSE IF made.r = 0 THEN Answered(g, ACCESS)
            ELSE Handed(g1, made.r, access)
  BY DEF fs_open
<1>5. i # 0 => i \in Used(g) /\ g.ents[i].name = name
  BY <1>1, FoundIs
<1>6. name # <<>> /\ ~IsDir(g, name) /\ disposition # "EXISTING" =>
        /\ made.r = 0 <=> name \notin Taken(g) /\ Cardinality(Taken(g)) = MAX_ENTRIES
        /\ made.r # 0 => Ready(g, g1, made.r, name, disposition)
  BY <1>1, MadeIs
<1> HIDE DEF name, got, i, made, g1
<1>7. why = IF name = <<>> \/ IsDir(g, name)
              THEN IF name = <<>> /\ disposition = "EXISTING" THEN NOTFOUND ELSE ACCESS
            ELSE IF name \in Taken(g)
              THEN IF disposition = "CREATE_NEW" THEN ACCESS ELSE 0
            ELSE IF disposition = "EXISTING" THEN NOTFOUND
            ELSE IF Cardinality(Taken(g)) = MAX_ENTRIES THEN ACCESS ELSE 0
  BY DEF Refused
<1> HIDE DEF why
<1>8. NOTFOUND # 0 /\ ACCESS # 0
  BY DEF NOTFOUND, ACCESS
<1>9. why # 0 => got = Answered(g, why)
  BY <1>2, <1>3, <1>4, <1>6, <1>7, <1>8
<1>10. ASSUME why = 0
       PROVE  \E gg, k : Ready(g, gg, k, name, disposition) /\ got = Handed(gg, k, access)
  <2>1. CASE disposition = "EXISTING"
    <3>1. got = Handed(g, i, access) /\ i # 0 /\ ~g.ents[i].isdir
      BY <1>2, <1>3, <1>4, <1>7, <1>8, <1>10, <2>1
    <3>2. Ready(g, g, i, name, disposition)
      BY <1>5, <2>1, <3>1 DEF Ready
    <3> QED BY <3>1, <3>2
  <2>2. CASE disposition # "EXISTING"
    <3>1. got = Handed(g1, made.r, access) /\ Ready(g, g1, made.r, name, disposition)
      BY <1>2, <1>3, <1>4, <1>6, <1>7, <1>8, <1>10, <2>2
    <3> QED BY <3>1
  <2> QED BY <2>1, <2>2
<1> QED BY <1>9, <1>10 DEF name, why, got

(* The end of fs_open: the least handle that is free, or none.             *)
LEMMA HandedIs ==
  ASSUME NEW g, NEW i, NEW access
  PROVE  LET q == Handed(g, i, access) IN
         \/ q = Answered(g, TOOMANY) /\ \A h \in 1 .. MAX_OPEN : g.opens[h].ent # 0
         \/ \E h \in 1 .. MAX_OPEN :
              /\ g.opens[h].ent = 0
              /\ q = Answered([g EXCEPT !.opens[h] = [ent |-> i, access |-> access, pos |-> 0]], h)
<1> DEFINE free == {h \in 1 .. MAX_OPEN : g.opens[h].ent = 0}
<1>1. MAX_OPEN \in Nat
  BY MemConstants
<1>2. Handed(g, i, access) =
        IF free = {} THEN Answered(g, TOOMANY)
        ELSE Answered([g EXCEPT !.opens[Least(free)] =
                        [ent |-> i, access |-> access, pos |-> 0]], Least(free))
  BY DEF Handed
<1>3. CASE free = {}
  BY <1>2, <1>3
<1>4. CASE free # {}
  <2>1. free \in SUBSET Nat
    BY <1>1
  <2>2. Least(free) \in free
    BY <1>4, <2>1, LeastIs
  <2>3. Least(free) \in 1 .. MAX_OPEN /\ g.opens[Least(free)].ent = 0
    BY <2>2
  <2> HIDE DEF free
  <2> QED BY <1>2, <1>4, <2>3
<1> QED BY <1>3, <1>4

-----------------------------------------------------------------------------
(* By path.                                                                *)

\* What an open handle is on stays what it was.
Keeps(g, g2) ==
  /\ g2.opens = g.opens
  /\ \A h \in 1 .. MAX_OPEN : g.opens[h].ent # 0 =>
       LET i == g.opens[h].ent IN
       i \in Used(g2) /\ ~g2.ents[i].isdir /\ g2.ents[i].name = g.ents[i].name

(* fs_mkdir makes a name, or nothing.                                      *)
LEMMA MkdirIs ==
  ASSUME NEW g, FilesSound(g), OpensSound(g), NEW path \in Names
  PROVE  LET name == Resolved(g, path)
             did  == fs_mkdir(g, path)
             no   == name = <<>> \/ name \in Taken(g) \/ Cardinality(Taken(g)) = MAX_ENTRIES
         IN  /\ no => did = Answered(g, NOPATH)
             /\ ~no => /\ did.r = 0 /\ FilesSound(did.fs) /\ Keeps(g, did.fs)
                       /\ DirOf(did.fs) = Dir!With(DirOf(g), name, Dir!Directory)
<1> DEFINE name == Resolved(g, path)
           did  == fs_mkdir(g, path)
           no   == name = <<>> \/ name \in Taken(g) \/ Cardinality(Taken(g)) = MAX_ENTRIES
           made == NewEnt(g, name, TRUE)
           new  == NewSlot(name, TRUE)
           i    == made.r
           g2   == made.fs
<1>1. g \in Stores /\ Typed(g) /\ NamesSound(g) /\ BytesSound(g) /\ name \in Names /\ Standing(g, name)
  BY ResolvedIs DEF FilesSound, Typed
<1>2. name \in Taken(g) <=> Found(g, name) # 0
  BY <1>1, DirIs
<1>3. did = IF name = <<>> \/ Found(g, name) # 0 \/ made.r = 0 THEN Answered(g, NOPATH)
            ELSE Answered(made.fs, 0)
  BY DEF fs_mkdir
<1>4. SlotFor(g, made, new)
  BY NewEntIs
<1> HIDE DEF name, did, made, new
<1>5. no => did = Answered(g, NOPATH)
  BY <1>2, <1>3, <1>4 DEF SlotFor
<1>6. ASSUME ~no
      PROVE  /\ did.r = 0 /\ FilesSound(did.fs) /\ Keeps(g, did.fs)
             /\ DirOf(did.fs) = Dir!With(DirOf(g), name, Dir!Directory)
  <2>1. did.r = 0 /\ did.fs = g2 /\ i # 0
    BY <1>2, <1>3, <1>4, <1>6 DEF SlotFor, Answered
  <2>2. /\ new \in Slots /\ new.name = name /\ new.isdir = TRUE /\ new.data = 0 /\ new.cap = 0
        /\ new.borrowed = 0 /\ new.len = 0
    BY <1>1 DEF Blank, Slots, NewSlot, new
  <2>3. Fits(g, i, new)
    BY <1>6, <2>2 DEF Fits, SlotSound, MarkSound
  <2>4. Put(g, g2, i, new) /\ i \notin Used(g)
    <3>1. CASE i \in DOMAIN g.ents /\ i \notin Used(g) /\ g2 = [g EXCEPT !.ents[i] = new]
      BY <1>1, <2>3, <3>1, PutOver
    <3>2. CASE i = Len(g.ents) + 1 /\ Len(g.ents) # MAX_ENTRIES /\ g2 = [g EXCEPT !.ents = Append(@, new)]
      <4>1. Put(g, g2, i, new)
        BY <1>1, <2>3, <3>2, PutAfter
      <4>2. i \notin Used(g)
        <5>1. DOMAIN g.ents = 1 .. Len(g.ents) /\ Len(g.ents) \in Nat /\ Used(g) \subseteq DOMAIN g.ents
          BY <1>1, StoreParts, UsedAre
        <5> QED BY <3>2, <5>1
      <4> QED BY <4>1, <4>2
    <3> QED BY <1>4, <2>1, <3>1, <3>2 DEF SlotFor
  <2> HIDE DEF i, g2
  <2>5. \A j \in Used(g) : g.ents[j].name # name
    BY <1>6 DEF Taken
  <2>6. /\ FilesSound(g2) /\ i \in Used(g2) /\ Used(g2) = Used(g) \cup {i}
        /\ \A j \in Used(g) : g2.ents[j].name = g.ents[j].name /\ g2.ents[j].isdir = g.ents[j].isdir
        /\ DirOf(g2) = Dir!With(DirOf(g), new.name, Shown(g2, i))
    <3>1. new.name # <<>> /\ Standing(g, new.name) /\ \A j \in Used(g) : j # i => g.ents[j].name # new.name
      BY <1>1, <1>6, <2>2, <2>5
    <3> QED BY <2>4, <3>1, PutNames
  <2>7. Shown(g2, i) = Dir!Directory
    <3>1. g2 \in Stores /\ BytesSound(g2) /\ i \in DOMAIN g2.ents /\ g2.ents[i] = new
      BY <2>4, <2>6 DEF Put, Typed, Used
    <3>2. Contents(g2, i) \in Seq(Octets) /\ Len(Contents(g2, i)) = 0
      BY <2>2, <3>1, ContentsAre
    <3>3. Contents(g2, i) = <<>>
      BY <3>2, EmptySeq
    <3> QED BY <2>2, <3>1, <3>3 DEF Shown, Dir!Directory
  <2>8. Keeps(g, g2)
    BY <2>4, <2>6 DEF Keeps, Put, OpensSound
  <2> QED BY <2>1, <2>2, <2>6, <2>7, <2>8
<1> QED BY <1>5, <1>6 DEF name, did

(* A free slot is sound anywhere.                                          *)
LEMMA BlankIs == Blank \in Slots /\ \A beg : SlotSound(Blank, beg) /\ MarkSound(Blank)
<1>1. Blank \in Slots
  BY DEF Blank, Slots, Names
<1>2. ASSUME NEW beg PROVE SlotSound(Blank, beg) /\ MarkSound(Blank)
  BY DEF Blank, SlotSound, MarkSound
<1> QED BY <1>1, <1>2

(* fs_unlink takes a file's name away.                                     *)
LEMMA UnlinkIs ==
  ASSUME NEW g, FilesSound(g), OpensSound(g), NEW path \in Names,
         \A h \in 1 .. MAX_OPEN : g.opens[h].ent # 0 =>
           g.ents[g.opens[h].ent].name # Resolved(g, path)
  PROVE  LET name == Resolved(g, path)
             did  == fs_unlink(g, path)
             no   == name \notin Taken(g) \/ IsDir(g, name)
         IN  /\ no => did = Answered(g, NOTFOUND)
             /\ ~no => /\ did.r = 0 /\ FilesSound(did.fs) /\ Keeps(g, did.fs)
                       /\ DirOf(did.fs) = Dir!Without(DirOf(g), name)
<1> DEFINE name == Resolved(g, path)
           did  == fs_unlink(g, path)
           no   == name \notin Taken(g) \/ IsDir(g, name)
           i    == Found(g, name)
           g2   == [g EXCEPT !.ents[i] = Blank]
<1>1. g \in Stores /\ Typed(g) /\ NamesSound(g) /\ BytesSound(g)
  BY DEF FilesSound, Typed
<1>2. name \in Taken(g) <=> i # 0
  BY <1>1, DirIs
<1>3. did = IF i = 0 \/ IsDir(g, name) THEN Answered(g, NOTFOUND) ELSE Answered(g2, 0)
  BY DEF fs_unlink
<1>4. i # 0 => i \in Used(g) /\ g.ents[i].name = name /\ i \in DOMAIN g.ents
  BY <1>1, FoundIs, UsedAre
<1>5. IsDir(g, name) <=> i # 0 /\ g.ents[i].isdir
  BY DEF IsDir
<1> HIDE DEF name, did, i, g2
<1>6. no => did = Answered(g, NOTFOUND)
  BY <1>2, <1>3
<1>7. ASSUME ~no
      PROVE  /\ did.r = 0 /\ FilesSound(did.fs) /\ Keeps(g, did.fs)
             /\ DirOf(did.fs) = Dir!Without(DirOf(g), name)
  <2>1. did.r = 0 /\ did.fs = g2 /\ i # 0
    BY <1>2, <1>3, <1>7 DEF Answered
  <2>2. Fits(g, i, Blank)
    BY BlankIs DEF Fits, Blank
  <2>3. Put(g, g2, i, Blank)
    BY <1>1, <1>4, <2>1, <2>2, PutOver DEF g2
  <2>4. /\ FilesSound(g2) /\ Used(g2) = Used(g) \ {i}
        /\ \A j \in Used(g2) : g2.ents[j].name = g.ents[j].name /\ g2.ents[j].isdir = g.ents[j].isdir
        /\ DirOf(g2) = Dir!Without(DirOf(g), g.ents[i].name)
    BY <1>4, <1>5, <1>7, <2>1, <2>3, DropNames
  <2>5. \A h \in 1 .. MAX_OPEN : g.opens[h].ent # 0 => g.opens[h].ent # i
    BY <1>4, <2>1 DEF name
  <2>6. Keeps(g, g2)
    BY <2>3, <2>4, <2>5 DEF Keeps, Put, OpensSound
  <2> QED BY <1>4, <2>1, <2>4, <2>6
<1> QED BY <1>6, <1>7 DEF name, did

(* fs_rmdir takes an empty directory's name away.                          *)
LEMMA RmdirIs ==
  ASSUME NEW g, FilesSound(g), OpensSound(g), NEW path
  PROVE  LET did  == fs_rmdir(g, path)
             none == ~IsDir(g, path)
             full == \E name \in Taken(g) : Front(name) = path
         IN  /\ none => did = Answered(g, NOPATH)
             /\ ~none /\ full => did = Answered(g, ACCESS)
             /\ ~none /\ ~full => /\ did.r = 0 /\ FilesSound(did.fs) /\ Keeps(g, did.fs)
                                  /\ DirOf(did.fs) = Dir!Without(DirOf(g), path)
<1> DEFINE did  == fs_rmdir(g, path)
           none == ~IsDir(g, path)
           full == \E name \in Taken(g) : Front(name) = path
           i    == Found(g, path)
           g2   == [g EXCEPT !.ents[i] = Blank]
<1>1. g \in Stores /\ Typed(g) /\ NamesSound(g) /\ BytesSound(g)
  BY DEF FilesSound, Typed
<1>2. full <=> Inside(g, path) # {}
  BY DEF Inside, Taken
<1>3. did = IF none THEN Answered(g, NOPATH)
            ELSE IF Inside(g, path) # {} THEN Answered(g, ACCESS) ELSE Answered(g2, 0)
  BY DEF fs_rmdir
<1>4. i # 0 => i \in Used(g) /\ g.ents[i].name = path /\ i \in DOMAIN g.ents
  BY <1>1, FoundIs, UsedAre
<1>5. ~none <=> i # 0 /\ g.ents[i].isdir
  BY DEF IsDir
<1> HIDE DEF did, none, full, i, g2
<1>6. ASSUME ~none, ~full
      PROVE  /\ did.r = 0 /\ FilesSound(did.fs) /\ Keeps(g, did.fs)
             /\ DirOf(did.fs) = Dir!Without(DirOf(g), path)
  <2>1. did.r = 0 /\ did.fs = g2 /\ i # 0 /\ g.ents[i].isdir
    BY <1>2, <1>3, <1>5, <1>6 DEF Answered
  <2>2. Fits(g, i, Blank)
    BY BlankIs DEF Fits, Blank
  <2>3. Put(g, g2, i, Blank)
    BY <1>1, <1>4, <2>1, <2>2, PutOver DEF g2
  <2>4. \A j \in Used(g) : Front(g.ents[j].name) # path
    BY <1>6 DEF full, Taken
  <2>5. /\ FilesSound(g2) /\ Used(g2) = Used(g) \ {i}
        /\ \A j \in Used(g2) : g2.ents[j].name = g.ents[j].name /\ g2.ents[j].isdir = g.ents[j].isdir
        /\ DirOf(g2) = Dir!Without(DirOf(g), g.ents[i].name)
    BY <1>4, <2>1, <2>3, <2>4, DropNames
  <2>6. \A h \in 1 .. MAX_OPEN : g.opens[h].ent # 0 => g.opens[h].ent # i
    BY <2>1 DEF OpensSound
  <2>7. Keeps(g, g2)
    BY <2>3, <2>5, <2>6 DEF Keeps, Put, OpensSound
  <2> QED BY <1>4, <2>1, <2>5, <2>7
<1> QED BY <1>2, <1>3, <1>6 DEF did, none, full

\* What an open handle is on has its name, which is b if it was a.
KeepsBut(g, g2, a, b) ==
  /\ g2.opens = g.opens
  /\ \A h \in 1 .. MAX_OPEN : g.opens[h].ent # 0 =>
       LET i == g.opens[h].ent IN
       /\ i \in Used(g2) /\ ~g2.ents[i].isdir
       /\ g2.ents[i].name = IF g.ents[i].name = a THEN b ELSE g.ents[i].name

(* fs_rename moves what a name holds to another.                           *)
LEMMA RenameIs ==
  ASSUME NEW g, FilesSound(g), OpensSound(g), NEW from \in Names, NEW to \in Names,
         ~IsDir(g, Resolved(g, from)), Resolved(g, to) # <<>>
  PROVE  LET a   == Resolved(g, from)
             b   == Resolved(g, to)
             did == fs_rename(g, from, to)
             no  == a \notin Taken(g) \/ (a # b /\ b \in Taken(g))
         IN  /\ no => did = Answered(g, ACCESS)
             /\ ~no => /\ did.r = 0 /\ FilesSound(did.fs) /\ KeepsBut(g, did.fs, a, b)
                       /\ DirOf(did.fs) = Dir!With(Dir!Without(DirOf(g), a), b, DirOf(g)[a])
<1> DEFINE a   == Resolved(g, from)
           b   == Resolved(g, to)
           did == fs_rename(g, from, to)
           no  == a \notin Taken(g) \/ (a # b /\ b \in Taken(g))
           i   == Found(g, a)
           e   == [g.ents[i] EXCEPT !.name = b]
           g2  == [g EXCEPT !.ents[i].name = b]
<1>1. g \in Stores /\ Typed(g) /\ NamesSound(g) /\ BytesSound(g) /\ b \in Names /\ Standing(g, b)
  BY ResolvedIs DEF FilesSound, Typed
<1>2. /\ a \in Taken(g) <=> i # 0
      /\ b \in Taken(g) <=> Found(g, b) # 0
      /\ DOMAIN DirOf(g) = Taken(g) /\ DirOf(g) = [n \in Taken(g) |-> DirOf(g)[n]]
  BY <1>1, DirIs
<1>3. did = IF i = 0 THEN Answered(g, ACCESS)
            ELSE IF a = b THEN Answered(g, 0)
            ELSE IF Found(g, b) # 0 THEN Answered(g, ACCESS)
            ELSE Answered(g2, 0)
  BY DEF fs_rename
<1>4. i # 0 => i \in Used(g) /\ g.ents[i].name = a /\ i \in DOMAIN g.ents
  BY <1>1, FoundIs, UsedAre
<1>5. i # 0 => ~g.ents[i].isdir
  BY DEF IsDir
<1>6. b # <<>>
  OBVIOUS
<1>7. g2 = [g EXCEPT !.ents[i] = e]
  OBVIOUS
<1> HIDE DEF a, b, did, i, g2, e
<1>8. no => did = Answered(g, ACCESS)
  BY <1>2, <1>3
<1>9. ASSUME ~no
      PROVE  /\ did.r = 0 /\ FilesSound(did.fs) /\ KeepsBut(g, did.fs, a, b)
             /\ DirOf(did.fs) = Dir!With(Dir!Without(DirOf(g), a), b, DirOf(g)[a])
  <2>1. CASE a = b
    <3>1. did.r = 0 /\ did.fs = g
      BY <1>2, <1>3, <1>9, <2>1 DEF Answered
    <3>2. KeepsBut(g, g, a, b)
      BY <2>1 DEF KeepsBut, OpensSound
    <3> DEFINE D == DirOf(g)
               T == Taken(g)
    <3>3. D = [n \in T |-> D[n]] /\ DOMAIN D = T /\ a \in T
      BY <1>2, <1>9
    <3> HIDE DEF D, T
    <3>4. Dir!Without(D, a) = [n \in T \ {a} |-> D[n]]
      BY <3>3 DEF Dir!Without
    <3>5. DOMAIN Dir!Without(D, a) = T \ {a} /\ \A n \in T \ {a} : Dir!Without(D, a)[n] = D[n]
      BY <3>4
    <3>6. Dir!With(Dir!Without(D, a), a, D[a]) = [n \in T |-> D[n]]
      <4>1. (T \ {a}) \cup {a} = T
        BY <3>3
      <4>2. Dir!With(Dir!Without(D, a), a, D[a]) =
              [n \in T |-> IF n = a THEN D[a] ELSE Dir!Without(D, a)[n]]
        BY <3>5, <4>1 DEF Dir!With
      <4>3. \A n \in T : (IF n = a THEN D[a] ELSE Dir!Without(D, a)[n]) = D[n]
        BY <3>5
      <4> QED BY <4>2, <4>3
    <3>7. Dir!With(Dir!Without(D, a), b, D[a]) = D
      BY <2>1, <3>3, <3>6
    <3> QED BY <3>1, <3>2, <3>7 DEF D
  <2>2. CASE a # b
    <3>1. did.r = 0 /\ did.fs = g2 /\ i # 0 /\ b \notin Taken(g)
      BY <1>2, <1>3, <1>9, <2>2 DEF Answered
    <3>2. g.ents[i] \in Slots /\ SlotSound(g.ents[i], g.beg) /\ MarkSound(g.ents[i])
      BY <1>1, <1>4, <3>1, StoreParts DEF BytesSound
    <3>3. /\ e \in Slots /\ e.name = b /\ e.isdir = g.ents[i].isdir
          /\ e.written = g.ents[i].written /\ e.borrowed = g.ents[i].borrowed
          /\ e.data = g.ents[i].data /\ e.len = g.ents[i].len /\ e.cap = g.ents[i].cap
      BY <1>1, <3>2 DEF e, Slots
    <3>4. SlotSound(e, g.beg) /\ MarkSound(e)
      <4>1. g.ents[i].name # <<>>
        BY <1>4, <3>1 DEF Used
      <4> QED BY <1>6, <3>2, <3>3, <4>1 DEF SlotSound, MarkSound
    <3>5. Fits(g, i, e)
      BY <1>4, <3>1, <3>3, <3>4 DEF Fits
    <3>6. Put(g, g2, i, e)
      BY <1>1, <1>4, <1>7, <3>1, <3>5, PutOver
    <3>7. /\ FilesSound(g2) /\ Used(g2) = Used(g)
          /\ \A j \in Used(g) : /\ g2.ents[j].name = IF j = i THEN b ELSE g.ents[j].name
                                /\ g2.ents[j].isdir = g.ents[j].isdir
          /\ DirOf(g2) = Dir!With(Dir!Without(DirOf(g), g.ents[i].name), b,
                                  DirOf(g)[g.ents[i].name])
      BY <1>1, <1>4, <1>5, <1>6, <3>1, <3>6, RenameNames DEF e
    <3>8. \A j \in Used(g) : g.ents[j].name = a <=> j = i
      BY <1>1, <1>4, <3>1 DEF NamesSound
    <3>9. KeepsBut(g, g2, a, b)
      <4>1. g2.opens = g.opens
        BY <3>6 DEF Put
      <4> QED BY <3>7, <3>8, <4>1 DEF KeepsBut, OpensSound
    <3> QED BY <1>4, <3>1, <3>7, <3>9
  <2> QED BY <2>1, <2>2
<1> QED BY <1>8, <1>9 DEF a, b, did

-----------------------------------------------------------------------------
(* fs_write.                                                               *)

(* A write that found the mark set is one that set it.                     *)
LEMMA WroteAfter ==
  ASSUME NEW g, NEW gm, NEW g3, NEW h, NEW i, NEW pos, NEW src,
         g \in Stores, SameNames(g, gm), gm.opens = g.opens, i \in DOMAIN g.ents,
         \A j \in DOMAIN g.ents : Contents(gm, j) = Contents(g, j),
         DOMAIN gm.ents = DOMAIN g.ents, Wrote(gm, g3, h, i, pos, src)
  PROVE  Wrote(g, g3, h, i, pos, src)
<1>1. SameNames(g, g3)
  BY DEF SameNames, Wrote
<1>2. g3.opens = [g.opens EXCEPT ![h].pos = pos + Len(src)]
  BY DEF Wrote
<1>3. Contents(g3, i) = Dir!Overlaid(Contents(g, i), pos, src)
  BY DEF Wrote
<1>4. \A j \in DOMAIN g.ents : j # i => Contents(g3, j) = Contents(g, j)
  BY DEF Wrote
<1> QED BY <1>1, <1>2, <1>3, <1>4 DEF Wrote

(* fs_write, when there is memory for it.                                  *)
LEMMA WriteIs ==
  ASSUME NEW g, FilesSound(g), OpensSound(g), NEW h \in 1 .. MAX_OPEN, g.opens[h].ent # 0,
         NEW src \in Seq(Octets), fs_write(g, h, src).r # GIVENUP
  PROVE  LET o   == g.opens[h]
             put == fs_write(g, h, src)
         IN  /\ o.access = "READ" => put = Answered(g, ACCESS)
             /\ o.access # "READ" /\ src = <<>> => put = Answered(Marked(g, o.ent), 0)
             /\ o.access # "READ" /\ src # <<>> =>
                  put.r = Len(src) /\ Wrote(g, put.fs, h, o.ent, o.pos, src)
<1> DEFINE o   == g.opens[h]
           i   == o.ent
           gm  == Marked(g, i)
           end == o.pos + Len(src)
           res == Reserved(gm, i, end)
           put == fs_write(g, h, src)
<1>1. IsOpen(g, h)
  BY DEF IsOpen
<1>2. Reserved([g EXCEPT !.ents[o.ent].written = TRUE], o.ent, o.pos + Len(src)) = res
  BY DEF Marked
<1>3. put = IF o.access = "READ" THEN Answered(g, ACCESS)
            ELSE IF src = <<>> THEN Answered(gm, 0)
            ELSE IF res.r = GIVENUP THEN res
            ELSE Answered(Over(res.fs, h, i, o.pos, src), Len(src))
  BY <1>1 DEF fs_write, Over, Marked
<1>4. i \in Used(g) /\ ~g.ents[i].isdir
  BY DEF OpensSound
<1>5. g \in Stores /\ o.pos \in Nat
  BY StoreParts DEF FilesSound, Typed
<1>6. /\ FilesSound(gm) /\ SameNames(g, gm)
      /\ gm.opens = g.opens /\ gm.mem = g.mem /\ gm.beg = g.beg
      /\ i \in DOMAIN g.ents
      /\ gm.ents[i] = [g.ents[i] EXCEPT !.written = TRUE]
      /\ \A j \in DOMAIN g.ents : j # i => gm.ents[j] = g.ents[j]
      /\ \A j \in DOMAIN g.ents : Contents(gm, j) = Contents(g, j)
  BY <1>4, MarkedIs
<1> HIDE DEF i, o, gm, res, put
<1>7. ASSUME o.access # "READ", src # <<>>
      PROVE  put.r = Len(src) /\ Wrote(g, put.fs, h, i, o.pos, src)
  <2>1. end \in Nat \ {0} /\ Len(src) \in Nat
    BY <1>5, <1>7, EmptySeq
  <2>2. res.r # GIVENUP /\ put.r = Len(src) /\ put.fs = Over(res.fs, h, i, o.pos, src)
    BY <1>3, <1>7 DEF Answered, put
  <2>3. gm \in Stores /\ DOMAIN gm.ents = DOMAIN g.ents /\ Used(gm) = Used(g)
    BY <1>5, <1>6, SameNamesKeep DEF FilesSound, Typed
  <2>4. SlotSound(gm.ents[i], gm.beg)
    BY <1>6, <2>3 DEF FilesSound, BytesSound
  <2>5. Rehoused(gm, res.fs, i, end)
    BY <1>6, <2>1, <2>2, <2>3, <2>4, ReservedIs DEF res
  <2>6. gm.ents[i].written /\ ~gm.ents[i].isdir
    <3>1. g.ents[i] \in Slots
      BY <1>5, <1>6, StoreParts
    <3> QED BY <1>4, <1>6, <3>1 DEF Slots
  <2>7. Wrote(gm, Over(res.fs, h, i, o.pos, src), h, i, o.pos, src)
    BY <1>4, <1>5, <1>6, <1>7, <2>3, <2>5, <2>6, OverIs
  <2>8. Wrote(g, Over(res.fs, h, i, o.pos, src), h, i, o.pos, src)
    BY <1>5, <1>6, <2>3, <2>7, WroteAfter
  <2> QED BY <2>2, <2>8
<1> QED BY <1>3, <1>7 DEF put, gm, o, i

Overwritten(D, n, pos, src) == [D EXCEPT ![n].bytes = Dir!Overlaid(@, pos, src)]

(* What it does to the directory the guest sees.                           *)
LEMMA WroteDir ==
  ASSUME NEW g, FilesSound(g), NEW h, NEW i \in Used(g), NEW pos, NEW src,
         NEW g3, Wrote(g, g3, h, i, pos, src)
  PROVE  /\ DirOf(g3) = Overwritten(DirOf(g), g.ents[i].name, pos, src)
         /\ FilesSound(g3) /\ Used(g3) = Used(g)
         /\ \A j \in Used(g) : g3.ents[j].name = g.ents[j].name /\ g3.ents[j].isdir = g.ents[j].isdir
<1> DEFINE n == g.ents[i].name
           D == [DirOf(g) EXCEPT ![n].bytes = Dir!Overlaid(@, pos, src)]
<1>1. g \in Stores /\ NamesSound(g) /\ g3 \in Stores /\ FilesSound(g3) /\ SameNames(g, g3)
  BY DEF Wrote, FilesSound, Typed
<1>2. /\ DOMAIN g3.ents = DOMAIN g.ents /\ Used(g3) = Used(g) /\ Taken(g3) = Taken(g)
      /\ NamesSound(g3) /\ Used(g) \subseteq DOMAIN g.ents
  BY <1>1, SameNamesKeep, UsedAre
<1>3. \A j \in Used(g) : g3.ents[j].name = g.ents[j].name /\ g3.ents[j].isdir = g.ents[j].isdir
  BY <1>1, <1>2 DEF SameNames
<1>4. /\ DOMAIN DirOf(g) = Taken(g)
      /\ \A j \in Used(g) : g.ents[j].name \in Taken(g)
                            /\ DirOf(g)[g.ents[j].name] = Shown(g, j)
  BY <1>1, DirIs
<1>5. \A j \in Used(g) : Shown(g3, j) = [isdir |-> g.ents[j].isdir, bytes |-> Contents(g3, j)]
  BY <1>3 DEF Shown
<1>6. Contents(g3, i) = Dir!Overlaid(Contents(g, i), pos, src)
  BY DEF Wrote
<1>7. \A j \in Used(g) : j # i => Contents(g3, j) = Contents(g, j)
  BY <1>2 DEF Wrote
<1>8. D[n] = [DirOf(g)[n] EXCEPT !.bytes = Dir!Overlaid(@, pos, src)]
  BY <1>4
<1>9. D[n] = Shown(g3, i)
  <2>1. DirOf(g)[n] = [isdir |-> g.ents[i].isdir, bytes |-> Contents(g, i)]
    BY <1>4 DEF Shown
  <2> QED BY <1>5, <1>6, <1>8, <2>1
<1>10. \A j \in Used(g) : j # i => D[g.ents[j].name] = Shown(g3, j)
  <2> SUFFICES ASSUME NEW j \in Used(g), j # i PROVE D[g.ents[j].name] = Shown(g3, j)
    OBVIOUS
  <2>1. g.ents[j].name # n
    BY <1>1 DEF NamesSound
  <2>2. D[g.ents[j].name] = Shown(g, j)
    BY <1>4, <2>1
  <2> QED BY <1>5, <1>7, <2>2 DEF Shown
<1>11. D = [x \in Taken(g) |-> D[x]]
  BY <1>4
<1> HIDE DEF D
<1>12. \A j \in Used(g3) : D[g3.ents[j].name] = Shown(g3, j)
  BY <1>2, <1>3, <1>9, <1>10
<1>13. DirOf(g3) = D
  BY <1>1, <1>2, <1>11, <1>12, DirEq
<1> QED BY <1>1, <1>2, <1>3, <1>13 DEF D, Overwritten

-----------------------------------------------------------------------------
(* The DOS handles and what they are on.                                   *)

FilesOf(table) == {fd \in 1 .. NFiles : table[fd].kind = "FILE"}
ImagesOf(table) == {fd \in 1 .. NFiles : table[fd].kind = "MEM"}
FreeOf(table) == {fd \in 1 .. NFiles : table[fd].kind = "FREE"}

Hand(g, h) == [name |-> g.ents[g.opens[h].ent].name, access |-> g.opens[h].access,
               pos |-> g.opens[h].pos]

(* The guest's handles, with the sets they are on named.                   *)
LEMMA HandsAre ==
  ASSUME NEW g, NEW table
  PROVE  /\ HandsOf(g, table) = [fd \in FilesOf(table) |-> Hand(g, table[fd].fh)]
         /\ DOMAIN HandsOf(g, table) = FilesOf(table)
         /\ \A fd \in FilesOf(table) : HandsOf(g, table)[fd] = Hand(g, table[fd].fh)
         /\ ImageOf(table) = [fd \in ImagesOf(table) |-> table[fd].pos]
         /\ DOMAIN ImageOf(table) = ImagesOf(table)
         /\ \A fd \in ImagesOf(table) : ImageOf(table)[fd] = table[fd].pos
<1>1. HandsOf(g, table) = [fd \in FilesOf(table) |-> Hand(g, table[fd].fh)]
  BY DEF HandsOf, FilesOf, Hand
<1>2. ImageOf(table) = [fd \in ImagesOf(table) |-> table[fd].pos]
  BY DEF ImageOf, ImagesOf
<1> QED BY <1>1, <1>2

(* The types of the table's parts, one by one.                             *)
LEMMA TableIs ==
  ASSUME NEW g, NEW table, FdsSound(g, table)
  PROVE  /\ NFiles \in Nat \ {0} /\ NFiles <= MAX_OPEN /\ MAX_OPEN \in Nat
         /\ table \in [1 .. NFiles -> Fds]
         /\ \A fd \in 1 .. NFiles :
              /\ table[fd].kind \in {"FREE", "FILE", "MEM"}
              /\ table[fd].fh \in 0 .. MAX_OPEN /\ table[fd].pos \in 0 .. ImageLen
              /\ fd \in FilesOf(table) <=> table[fd].kind = "FILE"
              /\ fd \in ImagesOf(table) <=> table[fd].kind = "MEM"
              /\ fd \in FreeOf(table) <=> table[fd].kind = "FREE"
         /\ FreeOf(table) = (1 .. NFiles) \ (FilesOf(table) \cup ImagesOf(table))
         /\ \A fd \in FilesOf(table) :
              /\ fd \in 1 .. NFiles /\ fd \notin ImagesOf(table) /\ fd \notin FreeOf(table)
              /\ table[fd].fh \in 1 .. MAX_OPEN /\ g.opens[table[fd].fh].ent # 0
<1>1. NFiles \in Nat \ {0} /\ NFiles <= MAX_OPEN /\ MAX_OPEN \in Nat
  BY DosConstants, MemConstants
<1>2. table \in [1 .. NFiles -> Fds]
  BY DEF FdsSound
<1>3. \A fd \in 1 .. NFiles :
        /\ table[fd].kind \in {"FREE", "FILE", "MEM"}
        /\ table[fd].fh \in 0 .. MAX_OPEN /\ table[fd].pos \in 0 .. ImageLen
  BY <1>2 DEF Fds
<1>4. \A fd \in 1 .. NFiles : table[fd].kind = "FILE" =>
        table[fd].fh \in 1 .. MAX_OPEN /\ g.opens[table[fd].fh].ent # 0
  <2> SUFFICES ASSUME NEW fd \in 1 .. NFiles, table[fd].kind = "FILE"
               PROVE  table[fd].fh \in 1 .. MAX_OPEN /\ g.opens[table[fd].fh].ent # 0
    OBVIOUS
  <2>1. table[fd].fh # 0 /\ g.opens[table[fd].fh].ent # 0
    BY DEF FdsSound
  <2> QED BY <1>1, <1>3, <2>1
<1>5. FreeOf(table) = (1 .. NFiles) \ (FilesOf(table) \cup ImagesOf(table))
  BY <1>3 DEF FilesOf, ImagesOf, FreeOf
<1>6. \A fd \in 1 .. NFiles :
              /\ fd \in FilesOf(table) <=> table[fd].kind = "FILE"
              /\ fd \in ImagesOf(table) <=> table[fd].kind = "MEM"
              /\ fd \in FreeOf(table) <=> table[fd].kind = "FREE"
  BY DEF FilesOf, ImagesOf, FreeOf
<1>7. \A fd \in FilesOf(table) :
              /\ fd \in 1 .. NFiles /\ fd \notin ImagesOf(table) /\ fd \notin FreeOf(table)
              /\ table[fd].fh \in 1 .. MAX_OPEN /\ g.opens[table[fd].fh].ent # 0
  BY <1>4 DEF FilesOf, ImagesOf, FreeOf
<1> QED BY <1>1, <1>2, <1>3, <1>5, <1>6, <1>7

(* The same handles are open, each still on a file.                        *)
StillOpen(g, g2) ==
  \A h \in 1 .. MAX_OPEN :
    /\ g2.opens[h].ent # 0 <=> g.opens[h].ent # 0
    /\ g2.opens[h].ent # 0 =>
         g2.opens[h].ent \in Used(g2) /\ ~g2.ents[g2.opens[h].ent].isdir

(* The table holds as long as the same handles are open.                   *)
LEMMA StillSound ==
  ASSUME NEW g, NEW g2, NEW table, FdsSound(g, table), StillOpen(g, g2)
  PROVE  OpensSound(g2) /\ FdsSound(g2, table)
<1>1. OpensSound(g2)
  BY DEF OpensSound, StillOpen
<1>2. \A fd \in 1 .. NFiles :
         table[fd].kind = "FILE" => table[fd].fh # 0 /\ g2.opens[table[fd].fh].ent # 0
  BY TableIs DEF StillOpen
<1>3. \A h \in 1 .. MAX_OPEN :
        g2.opens[h].ent # 0 =>
          \E fd \in 1 .. NFiles : table[fd].kind = "FILE" /\ table[fd].fh = h
  BY DEF FdsSound, StillOpen
<1> QED BY <1>1, <1>2, <1>3 DEF FdsSound

(* Handles on what shows as it did show as they did.                       *)
LEMMA HandsStay ==
  ASSUME NEW g, NEW g2, NEW table, FdsSound(g, table),
         \A h \in 1 .. MAX_OPEN : g.opens[h].ent # 0 => Hand(g2, h) = Hand(g, h)
  PROVE  HandsOf(g2, table) = HandsOf(g, table)
<1>1. \A fd \in FilesOf(table) : Hand(g2, table[fd].fh) = Hand(g, table[fd].fh)
  BY TableIs
<1> QED BY <1>1, HandsAre

(* A change of the directory that no handle notices.                       *)
LEMMA KeepsHands ==
  ASSUME NEW g, NEW g2, NEW table, OpensSound(g), FdsSound(g, table), Keeps(g, g2)
  PROVE  OpensSound(g2) /\ FdsSound(g2, table) /\ HandsOf(g2, table) = HandsOf(g, table)
<1>1. StillOpen(g, g2)
  BY DEF Keeps, StillOpen
<1>2. \A h \in 1 .. MAX_OPEN : g.opens[h].ent # 0 => Hand(g2, h) = Hand(g, h)
  BY DEF Keeps, Hand
<1> QED BY <1>1, <1>2, StillSound, HandsStay

(* A handle follows its file to its new name.                              *)
LEMMA RenamedHands ==
  ASSUME NEW g, NEW g2, NEW table, OpensSound(g), FdsSound(g, table), NEW a, NEW b,
         KeepsBut(g, g2, a, b)
  PROVE  /\ OpensSound(g2) /\ FdsSound(g2, table)
         /\ HandsOf(g2, table) =
              [fd \in DOMAIN HandsOf(g, table) |->
                 IF HandsOf(g, table)[fd].name = a
                 THEN [HandsOf(g, table)[fd] EXCEPT !.name = b] ELSE HandsOf(g, table)[fd]]
<1>1. StillOpen(g, g2)
  BY DEF KeepsBut, StillOpen
<1>2. \A h \in 1 .. MAX_OPEN : g.opens[h].ent # 0 =>
        Hand(g2, h) = IF Hand(g, h).name = a THEN [Hand(g, h) EXCEPT !.name = b] ELSE Hand(g, h)
  BY DEF KeepsBut, Hand
<1>3. \A fd \in FilesOf(table) :
        Hand(g2, table[fd].fh) =
          IF Hand(g, table[fd].fh).name = a THEN [Hand(g, table[fd].fh) EXCEPT !.name = b]
          ELSE Hand(g, table[fd].fh)
  BY <1>2, TableIs
<1>4. OpensSound(g2) /\ FdsSound(g2, table)
  BY <1>1, StillSound
<1> DEFINE H == HandsOf(g, table)
<1>5. DOMAIN H = FilesOf(table) /\ \A x \in FilesOf(table) : H[x] = Hand(g, table[x].fh)
  BY HandsAre
<1>6. HandsOf(g2, table) = [x \in FilesOf(table) |-> Hand(g2, table[x].fh)]
  BY HandsAre
<1> HIDE DEF H
<1>7. HandsOf(g2, table) =
        [x \in DOMAIN H |-> IF H[x].name = a THEN [H[x] EXCEPT !.name = b] ELSE H[x]]
  BY <1>3, <1>5, <1>6
<1> QED BY <1>4, <1>7 DEF H

(* One handle moved, and nothing else about the handles.                   *)
Moves(g, g2, h, p) ==
  /\ StillOpen(g, g2)
  /\ Hand(g2, h) = [Hand(g, h) EXCEPT !.pos = p]
  /\ \A k \in 1 .. MAX_OPEN : k # h /\ g.opens[k].ent # 0 => Hand(g2, k) = Hand(g, k)

MovedTo(hands, fd, p) == [hands EXCEPT ![fd].pos = p]

(* One handle's position changed.                                          *)
LEMMA MovedHands ==
  ASSUME NEW g, NEW g2, NEW table, OpensSound(g), FdsSound(g, table), NEW p,
         NEW fd \in FilesOf(table), Moves(g, g2, table[fd].fh, p)
  PROVE  /\ OpensSound(g2) /\ FdsSound(g2, table)
         /\ HandsOf(g2, table) = MovedTo(HandsOf(g, table), fd, p)
<1>1. OpensSound(g2) /\ FdsSound(g2, table)
  BY StillSound DEF Moves
<1>2. \A other \in FilesOf(table) : other # fd =>
        Hand(g2, table[other].fh) = Hand(g, table[other].fh)
  <2> SUFFICES ASSUME NEW other \in FilesOf(table), other # fd
               PROVE  Hand(g2, table[other].fh) = Hand(g, table[other].fh)
    OBVIOUS
  <2>1. table[other].fh # table[fd].fh
    BY DEF FdsSound, FilesOf
  <2> QED BY <2>1, TableIs DEF Moves
<1>3. Hand(g2, table[fd].fh) = [Hand(g, table[fd].fh) EXCEPT !.pos = p]
  BY DEF Moves
<1> DEFINE H == HandsOf(g, table)
<1>4. H = [x \in FilesOf(table) |-> H[x]] /\ \A x \in FilesOf(table) : H[x] = Hand(g, table[x].fh)
  BY HandsAre
<1> HIDE DEF H
<1>5. [H EXCEPT ![fd].pos = p] =
        [x \in FilesOf(table) |-> IF x = fd THEN [H[fd] EXCEPT !.pos = p] ELSE H[x]]
  BY <1>4
<1>6. HandsOf(g2, table) = [x \in FilesOf(table) |-> Hand(g2, table[x].fh)]
  BY HandsAre
<1>7. HandsOf(g2, table) = [H EXCEPT ![fd].pos = p]
  BY <1>2, <1>3, <1>4, <1>5, <1>6
<1> QED BY <1>1, <1>7 DEF H, MovedTo

(* While every open file has its handle, there is one for every one that   *)
(* can be opened: fs_open runs out only when the DOS handles do.           *)
LEMMA NoneFree ==
  ASSUME NEW g, NEW table, FdsSound(g, table), \A h \in 1 .. MAX_OPEN : g.opens[h].ent # 0
  PROVE  FreeOf(table) = {}
<1> DEFINE F == FilesOf(table)
           f == [fd \in F |-> table[fd].fh]
           A == 1 .. MAX_OPEN
           B == 1 .. NFiles
<1>1. NFiles \in Nat /\ NFiles <= MAX_OPEN /\ MAX_OPEN \in Nat /\ NFiles # 0
  BY TableIs
<1>2. IsFiniteSet(A) /\ Cardinality(A) = MAX_OPEN /\ IsFiniteSet(B) /\ Cardinality(B) = NFiles
  <2>1. MAX_OPEN \in Int /\ NFiles \in Int /\ 1 \in Int /\ ~(1 > NFiles) /\ ~(1 > MAX_OPEN)
    BY <1>1
  <2>2. IsFiniteSet(1 .. MAX_OPEN) /\ Cardinality(1 .. MAX_OPEN) = MAX_OPEN - 1 + 1
    BY <2>1, FS_Interval
  <2>3. IsFiniteSet(1 .. NFiles) /\ Cardinality(1 .. NFiles) = NFiles - 1 + 1
    BY <2>1, FS_Interval
  <2> QED BY <1>1, <2>2, <2>3
<1>3. F \in SUBSET B
  BY DEF FilesOf
<1>4. f \in [F -> A] /\ \A h \in A : \E fd \in F : f[fd] = h
  <2>1. \A fd \in F : table[fd].fh \in A
    BY TableIs
  <2>2. \A h \in A : \E fd \in F : table[fd].fh = h
    BY DEF FdsSound, FilesOf
  <2> QED BY <2>1, <2>2
<1> HIDE DEF A, B, F, f
<1>5. IsFiniteSet(F) /\ Cardinality(F) <= NFiles /\ (NFiles = Cardinality(F) => B = F)
  BY <1>2, <1>3, FS_Subset
<1>6. f \in Surjection(F, A)
  BY <1>4 DEF Surjection
<1>7. Cardinality(A) <= Cardinality(F)
  BY <1>5, <1>6, FS_Surjection
<1>8. Cardinality(F) \in Nat
  BY <1>5, FS_CardinalityType
<1>9. B = F
  BY <1>1, <1>2, <1>5, <1>7, <1>8
<1> QED BY <1>9 DEF B, F, FilesOf, FreeOf

(* One open handle changed.                                                *)
LEMMA HandlePut ==
  ASSUME NEW g, g \in Stores, NEW h \in 1 .. MAX_OPEN, NEW o
  PROVE  LET g2 == [g EXCEPT !.opens[h] = o] IN
         /\ g2.ents = g.ents /\ g2.mem = g.mem /\ g2.beg = g.beg
         /\ g2.opens = [g.opens EXCEPT ![h] = o] /\ g2.opens[h] = o
         /\ \A k \in 1 .. MAX_OPEN : k # h => g2.opens[k] = g.opens[k]
         /\ Used(g2) = Used(g)
<1> DEFINE g2 == [g EXCEPT !.opens[h] = o]
<1>1. g.opens \in [1 .. MAX_OPEN -> Openings]
  BY DEF Stores
<1>2. g2.ents = g.ents /\ g2.mem = g.mem /\ g2.beg = g.beg /\ g2.opens = [g.opens EXCEPT ![h] = o]
  BY DEF Stores
<1> HIDE DEF g2
<1>3. Used(g2) = Used(g)
  BY <1>2 DEF Used
<1>4. g2.opens[h] = o /\ \A k \in 1 .. MAX_OPEN : k # h => g2.opens[k] = g.opens[k]
  BY <1>1, <1>2
<1> QED BY <1>2, <1>3, <1>4 DEF g2

NewHand(name, access) == [name |-> name, access |-> access, pos |-> 0]
NewFd(h) == [kind |-> "FILE", fh |-> h, pos |-> 0]

GivenTo(g, table, h, i, access, fd) ==
  LET g2 == [g EXCEPT !.opens[h] = [ent |-> i, access |-> access, pos |-> 0]]
      t2 == [table EXCEPT ![fd] = NewFd(h)]
  IN  /\ OpensSound(g2) /\ FdsSound(g2, t2)
      /\ HandsOf(g2, t2) = Dir!With(HandsOf(g, table), fd, NewHand(g.ents[i].name, access))
      /\ ImageOf(t2) = ImageOf(table)

(* A DOS handle given to a file just opened.                               *)
LEMMA GivenHands ==
  ASSUME NEW g, NEW table, g \in Stores, OpensSound(g), FdsSound(g, table),
         NEW h \in 1 .. MAX_OPEN, g.opens[h].ent = 0,
         NEW i \in Used(g), ~g.ents[i].isdir, NEW access, NEW fd \in FreeOf(table)
  PROVE  GivenTo(g, table, h, i, access, fd)
<1> DEFINE o2 == [ent |-> i, access |-> access, pos |-> 0]
           g2 == [g EXCEPT !.opens[h] = o2]
           d2 == [kind |-> "FILE", fh |-> h, pos |-> 0]
           t2 == [table EXCEPT ![fd] = d2]
           H == HandsOf(g, table)
           new == [name |-> g.ents[i].name, access |-> access, pos |-> 0]
<1>1. /\ g2.ents = g.ents /\ g2.opens[h] = o2
      /\ \A k \in 1 .. MAX_OPEN : k # h => g2.opens[k] = g.opens[k]
      /\ Used(g2) = Used(g) /\ i # 0
  <2>1. i # 0
    BY StoreParts, UsedAre
  <2> HIDE DEF o2
  <2> QED BY <2>1, HandlePut
<1>2. fd \in 1 .. NFiles /\ table[fd].kind = "FREE" /\ table \in [1 .. NFiles -> Fds]
  BY TableIs DEF FreeOf
<1>3. t2[fd] = d2 /\ \A x \in 1 .. NFiles : x # fd => t2[x] = table[x]
  BY <1>2
<1>4. t2 \in [1 .. NFiles -> Fds]
  <2>1. d2 \in Fds
    <3>1. h \in 0 .. MAX_OPEN /\ 0 \in 0 .. ImageLen
      BY MemConstants DEF ImageLen
    <3> QED BY <3>1 DEF Fds
  <2> QED BY <1>2, <2>1
<1>5. FilesOf(t2) = FilesOf(table) \cup {fd} /\ fd \notin FilesOf(table)
  BY <1>2, <1>3 DEF FilesOf
<1>6. ImagesOf(t2) = ImagesOf(table) /\ fd \notin ImagesOf(table)
  BY <1>2, <1>3 DEF ImagesOf
<1>7. \A x \in FilesOf(table) : table[x].fh \in 1 .. MAX_OPEN /\ table[x].fh # h /\ x \in 1 .. NFiles
  BY TableIs
<1> HIDE DEF g2, t2
<1>8. OpensSound(g2)
  BY <1>1 DEF OpensSound
<1>9. FdsSound(g2, t2)
  <2>1. ASSUME NEW x \in 1 .. NFiles, t2[x].kind = "FILE"
        PROVE  t2[x].fh # 0 /\ g2.opens[t2[x].fh].ent # 0
    <3>1. CASE x = fd
      BY <1>1, <1>3, <3>1, MemConstants
    <3>2. CASE x # fd
      <4>1. x \in FilesOf(table) /\ t2[x] = table[x]
        BY <1>3, <2>1, <3>2 DEF FilesOf
      <4>2. /\ table[x].fh \in 1 .. MAX_OPEN /\ table[x].fh # h
            /\ g.opens[table[x].fh].ent # 0 /\ table[x].fh # 0
        BY <1>7, <4>1, TableIs
      <4> QED BY <1>1, <4>1, <4>2
    <3> QED BY <3>1, <3>2
  <2>2. ASSUME NEW x \in 1 .. NFiles, NEW y \in 1 .. NFiles,
               t2[x].kind = "FILE", t2[y].kind = "FILE", t2[x].fh = t2[y].fh
        PROVE  x = y
    <3>1. \A z \in 1 .. NFiles : z # fd /\ t2[z].kind = "FILE" => t2[z].fh # h
      BY <1>3, <1>7 DEF FilesOf
    <3>2. t2[fd].fh = h
      BY <1>3
    <3>3. CASE x = fd \/ y = fd
      BY <2>2, <3>1, <3>2, <3>3
    <3>4. CASE x # fd /\ y # fd
      BY <1>3, <2>2, <3>4 DEF FdsSound
    <3> QED BY <3>3, <3>4
  <2>3. ASSUME NEW k \in 1 .. MAX_OPEN, g2.opens[k].ent # 0
        PROVE  \E x \in 1 .. NFiles : t2[x].kind = "FILE" /\ t2[x].fh = k
    <3>1. CASE k = h
      BY <1>2, <1>3, <3>1
    <3>2. CASE k # h
      <4>1. PICK x \in 1 .. NFiles : table[x].kind = "FILE" /\ table[x].fh = k
        BY <1>1, <2>3, <3>2 DEF FdsSound
      <4>2. x # fd
        BY <1>2, <4>1
      <4> QED BY <1>3, <4>1, <4>2
    <3> QED BY <3>1, <3>2
  <2> QED BY <1>4, <2>1, <2>2, <2>3 DEF FdsSound
<1>10. HandsOf(g2, t2) = Dir!With(H, fd, new)
  <2>1. DOMAIN H = FilesOf(table) /\ \A x \in FilesOf(table) : H[x] = Hand(g, table[x].fh)
    BY HandsAre
  <2> HIDE DEF H
  <2>20. HandsOf(g2, t2) = [x \in FilesOf(t2) |-> Hand(g2, t2[x].fh)]
    BY HandsAre
  <2>2. HandsOf(g2, t2) = [x \in FilesOf(table) \cup {fd} |-> Hand(g2, t2[x].fh)]
    BY <1>5, <2>20
  <2>3. \A x \in FilesOf(table) : x # fd /\ Hand(g2, t2[x].fh) = H[x]
    BY <1>1, <1>3, <1>5, <1>7, <2>1 DEF Hand
  <2>4. Hand(g2, t2[fd].fh) = new
    BY <1>1, <1>3 DEF Hand
  <2>5. Dir!With(H, fd, new) = [x \in FilesOf(table) \cup {fd} |-> IF x = fd THEN new ELSE H[x]]
    BY <2>1 DEF Dir!With
  <2> QED BY <2>2, <2>3, <2>4, <2>5
<1>11. ImageOf(t2) = ImageOf(table)
  <2>1. \A x \in ImagesOf(table) : t2[x] = table[x]
    BY <1>3, <1>6 DEF ImagesOf
  <2>2. ImageOf(t2) = [x \in ImagesOf(t2) |-> t2[x].pos]
    BY HandsAre
  <2>3. ImageOf(table) = [x \in ImagesOf(table) |-> table[x].pos]
    BY HandsAre
  <2> QED BY <1>6, <2>1, <2>2, <2>3
<1>12. [table EXCEPT ![fd] = NewFd(h)] = t2 /\ NewHand(g.ents[i].name, access) = new
  BY DEF t2, NewFd, NewHand
<1> HIDE DEF H, new
<1> QED BY <1>8, <1>9, <1>10, <1>11, <1>12 DEF g2, GivenTo, H, new

(* A DOS handle taken away, with the file's own if it had one.             *)
LEMMA ClosedHands ==
  ASSUME NEW g, NEW table, g \in Stores, OpensSound(g), FdsSound(g, table), NEW fd \in FilesOf(table)
  PROVE  LET g2 == [g EXCEPT !.opens[table[fd].fh] = NotOpen]
             t2 == [table EXCEPT ![fd] = NoFd]
         IN  /\ OpensSound(g2) /\ FdsSound(g2, t2)
             /\ HandsOf(g2, t2) = Dir!Without(HandsOf(g, table), fd)
             /\ ImageOf(t2) = Dir!Without(ImageOf(table), fd)
<1> DEFINE h == table[fd].fh
           g2 == [g EXCEPT !.opens[h] = NotOpen]
           t2 == [table EXCEPT ![fd] = NoFd]
           H == HandsOf(g, table)
           M == ImageOf(table)
<1>1. fd \in 1 .. NFiles /\ h \in 1 .. MAX_OPEN /\ fd \notin ImagesOf(table)
      /\ table \in [1 .. NFiles -> Fds]
  BY TableIs
<1>2. /\ g2.ents = g.ents /\ g2.opens[h] = NotOpen
      /\ \A k \in 1 .. MAX_OPEN : k # h => g2.opens[k] = g.opens[k]
      /\ Used(g2) = Used(g)
  <2> HIDE DEF h
  <2> QED BY <1>1, HandlePut
<1>3. t2[fd] = NoFd /\ \A x \in 1 .. NFiles : x # fd => t2[x] = table[x]
  BY <1>1
<1>4. t2 \in [1 .. NFiles -> Fds]
  <2>1. NoFd \in Fds
    BY MemConstants DEF Fds, NoFd, ImageLen
  <2> QED BY <1>1, <2>1
<1>5. FilesOf(t2) = FilesOf(table) \ {fd}
  BY <1>3 DEF FilesOf, NoFd
<1>6. ImagesOf(t2) = ImagesOf(table)
  BY <1>1, <1>3 DEF ImagesOf, NoFd
<1>7. \A x \in FilesOf(table) :
        x # fd => table[x].fh \in 1 .. MAX_OPEN /\ table[x].fh # h /\ x \in 1 .. NFiles
               /\ g.opens[table[x].fh].ent # 0
  <2> SUFFICES ASSUME NEW x \in FilesOf(table), x # fd PROVE table[x].fh # h
    BY TableIs
  <2> QED BY DEF FdsSound, FilesOf
<1> HIDE DEF g2, t2, h
<1>8. OpensSound(g2)
  BY <1>2 DEF OpensSound, NotOpen
<1>9. FdsSound(g2, t2)
  <2>1. ASSUME NEW x \in 1 .. NFiles, t2[x].kind = "FILE"
        PROVE  x # fd /\ x \in FilesOf(table) /\ t2[x] = table[x]
    BY <1>3, <2>1 DEF FilesOf, NoFd
  <2>2. \A x \in 1 .. NFiles : t2[x].kind = "FILE" => t2[x].fh # 0 /\ g2.opens[t2[x].fh].ent # 0
    <3> SUFFICES ASSUME NEW x \in 1 .. NFiles, t2[x].kind = "FILE"
                 PROVE  t2[x].fh # 0 /\ g2.opens[t2[x].fh].ent # 0
      OBVIOUS
    <3>1. x # fd /\ x \in FilesOf(table) /\ t2[x] = table[x]
      BY <2>1
    <3>2. table[x].fh \in 1 .. MAX_OPEN /\ table[x].fh # h /\ g.opens[table[x].fh].ent # 0
      BY <1>7, <3>1
    <3> QED BY <1>2, <3>1, <3>2
  <2>3. \A x, y \in 1 .. NFiles :
          t2[x].kind = "FILE" /\ t2[y].kind = "FILE" /\ t2[x].fh = t2[y].fh => x = y
    BY <2>1 DEF FdsSound, FilesOf
  <2>4. ASSUME NEW k \in 1 .. MAX_OPEN, g2.opens[k].ent # 0
        PROVE  \E x \in 1 .. NFiles : t2[x].kind = "FILE" /\ t2[x].fh = k
    <3>1. k # h
      BY <1>2, <2>4 DEF NotOpen
    <3>2. PICK x \in 1 .. NFiles : table[x].kind = "FILE" /\ table[x].fh = k
      BY <1>2, <2>4, <3>1 DEF FdsSound
    <3>3. x # fd
      BY <3>1, <3>2 DEF h
    <3> QED BY <1>3, <3>2, <3>3
  <2> QED BY <1>4, <2>2, <2>3, <2>4 DEF FdsSound
<1>10. HandsOf(g2, t2) = Dir!Without(H, fd)
  <2>1. DOMAIN H = FilesOf(table) /\ \A x \in FilesOf(table) : H[x] = Hand(g, table[x].fh)
    BY HandsAre
  <2> HIDE DEF H
  <2>20. HandsOf(g2, t2) = [x \in FilesOf(t2) |-> Hand(g2, t2[x].fh)]
    BY HandsAre
  <2>2. HandsOf(g2, t2) = [x \in FilesOf(table) \ {fd} |-> Hand(g2, t2[x].fh)]
    BY <1>5, <2>20
  <2>3. \A x \in FilesOf(table) \ {fd} : Hand(g2, t2[x].fh) = H[x]
    BY <1>2, <1>3, <1>7, <2>1 DEF Hand
  <2>4. Dir!Without(H, fd) = [x \in FilesOf(table) \ {fd} |-> H[x]]
    BY <2>1 DEF Dir!Without
  <2> QED BY <2>2, <2>3, <2>4
<1>11. ImageOf(t2) = Dir!Without(M, fd)
  <2>1. DOMAIN M = ImagesOf(table) /\ \A x \in ImagesOf(table) : M[x] = table[x].pos
    BY HandsAre
  <2> HIDE DEF M
  <2>2. \A x \in ImagesOf(table) : t2[x] = table[x]
    BY <1>1, <1>3 DEF ImagesOf
  <2>3. Dir!Without(M, fd) = [x \in ImagesOf(table) |-> M[x]]
    <3>1. ImagesOf(table) \ {fd} = ImagesOf(table)
      BY <1>1
    <3> QED BY <2>1, <3>1 DEF Dir!Without
  <2>4. ImageOf(t2) = [x \in ImagesOf(t2) |-> t2[x].pos]
    BY HandsAre
  <2> QED BY <1>6, <2>1, <2>2, <2>3, <2>4
<1> QED BY <1>8, <1>9, <1>10, <1>11 DEF g2, t2, h

(* A window onto the module opened or moved.                               *)
LEMMA ImagePut ==
  ASSUME NEW g, NEW table, FdsSound(g, table), NEW fd \in 1 .. NFiles,
         table[fd].kind # "FILE", NEW new \in Fds, new.kind # "FILE"
  PROVE  LET t2 == [table EXCEPT ![fd] = new] IN
         /\ FdsSound(g, t2) /\ HandsOf(g, t2) = HandsOf(g, table)
         /\ new.kind = "MEM" => ImageOf(t2) = Dir!With(ImageOf(table), fd, new.pos)
         /\ new.kind = "FREE" => ImageOf(t2) = Dir!Without(ImageOf(table), fd)
<1> DEFINE t2 == [table EXCEPT ![fd] = new]
           M == ImageOf(table)
<1>1. table \in [1 .. NFiles -> Fds] /\ t2 \in [1 .. NFiles -> Fds]
  BY DEF FdsSound
<1>2. t2[fd] = new /\ \A x \in 1 .. NFiles : x # fd => t2[x] = table[x]
  BY <1>1
<1> HIDE DEF t2
<1>3. FilesOf(t2) = FilesOf(table) /\ \A x \in FilesOf(table) : t2[x] = table[x]
  BY <1>2 DEF FilesOf
<1>4. FdsSound(g, t2)
  <2>1. \A x \in 1 .. NFiles : t2[x].kind = "FILE" <=> table[x].kind = "FILE"
    BY <1>2
  <2>2. \A x \in 1 .. NFiles : table[x].kind = "FILE" => t2[x] = table[x]
    BY <1>2
  <2>3. \A x \in 1 .. NFiles : t2[x].kind = "FILE" => t2[x].fh # 0 /\ g.opens[t2[x].fh].ent # 0
    BY <2>1, <2>2 DEF FdsSound
  <2>4. \A x, y \in 1 .. NFiles :
          t2[x].kind = "FILE" /\ t2[y].kind = "FILE" /\ t2[x].fh = t2[y].fh => x = y
    BY <2>1, <2>2 DEF FdsSound
  <2>5. \A h \in 1 .. MAX_OPEN : g.opens[h].ent # 0 =>
          \E x \in 1 .. NFiles : t2[x].kind = "FILE" /\ t2[x].fh = h
    <3> SUFFICES ASSUME NEW h \in 1 .. MAX_OPEN, g.opens[h].ent # 0
                 PROVE  \E x \in 1 .. NFiles : t2[x].kind = "FILE" /\ t2[x].fh = h
      OBVIOUS
    <3>1. PICK x \in 1 .. NFiles : table[x].kind = "FILE" /\ table[x].fh = h
      BY DEF FdsSound
    <3> QED BY <2>1, <2>2, <3>1
  <2> QED BY <1>1, <2>3, <2>4, <2>5 DEF FdsSound
<1>5. HandsOf(g, t2) = HandsOf(g, table)
  <2>1. HandsOf(g, t2) = [x \in FilesOf(t2) |-> Hand(g, t2[x].fh)]
    BY HandsAre
  <2>2. HandsOf(g, table) = [x \in FilesOf(table) |-> Hand(g, table[x].fh)]
    BY HandsAre
  <2> QED BY <1>3, <2>1, <2>2
<1>6. DOMAIN M = ImagesOf(table) /\ \A x \in ImagesOf(table) : M[x] = table[x].pos
  BY HandsAre
<1> HIDE DEF M
<1>7. ImageOf(t2) = [x \in ImagesOf(t2) |-> t2[x].pos]
  BY HandsAre
<1>8. ASSUME new.kind = "MEM" PROVE ImageOf(t2) = Dir!With(M, fd, new.pos)
  <2>1. ImagesOf(t2) = ImagesOf(table) \cup {fd}
    BY <1>2, <1>8 DEF ImagesOf
  <2>2. \A x \in ImagesOf(table) : x # fd => t2[x].pos = M[x]
    BY <1>2, <1>6 DEF ImagesOf
  <2>3. Dir!With(M, fd, new.pos) =
          [x \in ImagesOf(table) \cup {fd} |-> IF x = fd THEN new.pos ELSE M[x]]
    BY <1>6 DEF Dir!With
  <2> QED BY <1>2, <1>7, <2>1, <2>2, <2>3
<1>9. ASSUME new.kind = "FREE" PROVE ImageOf(t2) = Dir!Without(M, fd)
  <2>1. ImagesOf(t2) = ImagesOf(table) \ {fd}
    BY <1>2, <1>9 DEF ImagesOf
  <2>2. \A x \in ImagesOf(table) \ {fd} : t2[x].pos = M[x]
    BY <1>2, <1>6 DEF ImagesOf
  <2>3. Dir!Without(M, fd) = [x \in ImagesOf(table) \ {fd} |-> M[x]]
    BY <1>6 DEF Dir!Without
  <2> QED BY <1>7, <2>1, <2>2, <2>3
<1> QED BY <1>4, <1>5, <1>8, <1>9 DEF t2, M

(* Nothing is lost where nothing was.                                      *)
LEMMA WithoutNothing ==
  ASSUME NEW f, NEW D, f = [z \in D |-> f[z]], NEW x, x \notin D
  PROVE  Dir!Without(f, x) = f
<1>1. DOMAIN f = D /\ D \ {x} = D
  OBVIOUS
<1> QED BY <1>1 DEF Dir!Without

(* Every handle closed at once.                                            *)
LEMMA AllClosed ==
  ASSUME NEW g, FilesSound(g)
  PROVE  LET g2 == fs_close_all(g)
             t2 == [fd \in 1 .. NFiles |-> NoFd]
         IN  /\ AllSound(g2, t2) /\ DirOf(g2) = DirOf(g)
             /\ HandsOf(g2, t2) = << >> /\ ImageOf(t2) = << >>
<1> DEFINE o2 == [h \in 1 .. MAX_OPEN |-> NotOpen]
           g2 == [g EXCEPT !.opens = o2]
           t2 == [fd \in 1 .. NFiles |-> NoFd]
<1>1. fs_close_all(g) = g2
  BY DEF fs_close_all
<1>2. NotOpen \in Openings /\ NoFd \in Fds /\ NoFd.kind = "FREE" /\ NotOpen.ent = 0
  BY MemConstants DEF NotOpen, Openings, NoFd, Fds, ImageLen
<1>3. o2 \in [1 .. MAX_OPEN -> Openings] /\ t2 \in [1 .. NFiles -> Fds]
  BY <1>2
<1>4. \A h \in 1 .. MAX_OPEN : o2[h].ent = 0
  BY <1>2
<1>5. \A fd \in 1 .. NFiles : t2[fd].kind = "FREE"
  BY <1>2
<1> HIDE DEF o2, t2, g2
<1>6. FilesSound(g2) /\ g2.opens = o2 /\ DirOf(g2) = DirOf(g)
  BY <1>3, OpensPut DEF g2
<1>7. OpensSound(g2) /\ FdsSound(g2, t2)
  BY <1>3, <1>4, <1>5, <1>6 DEF OpensSound, FdsSound
<1>8. FilesOf(t2) = {} /\ ImagesOf(t2) = {}
  BY <1>5 DEF FilesOf, ImagesOf
<1>9. HandsOf(g2, t2) = << >>
  <2>1. HandsOf(g2, t2) = [x \in FilesOf(t2) |-> Hand(g2, t2[x].fh)]
    BY HandsAre
  <2> QED BY <1>8, <2>1
<1>10. ImageOf(t2) = << >>
  <2>1. ImageOf(t2) = [x \in ImagesOf(t2) |-> t2[x].pos]
    BY HandsAre
  <2> QED BY <1>8, <2>1
<1> QED BY <1>1, <1>6, <1>7, <1>9, <1>10 DEF AllSound, t2

-----------------------------------------------------------------------------
(* A handle moved, by fs_read and fs_seek.                                 *)

(* A position changed is one handle's only.                                *)
LEMMA MovedIs ==
  ASSUME NEW g, FilesSound(g), OpensSound(g), NEW h \in 1 .. MAX_OPEN, g.opens[h].ent # 0,
         NEW p \in Nat
  PROVE  LET g2 == [g EXCEPT !.opens[h].pos = p] IN
         FilesSound(g2) /\ Moves(g, g2, h, p) /\ DirOf(g2) = DirOf(g)
<1> DEFINE o2 == [g.opens EXCEPT ![h].pos = p]
           g2 == [g EXCEPT !.opens[h].pos = p]
<1>1. g2 = [g EXCEPT !.opens = o2]
  OBVIOUS
<1>2. g.opens \in [1 .. MAX_OPEN -> Openings]
  BY StoreParts DEF FilesSound, Typed
<1>3. [g.opens[h] EXCEPT !.pos = p] \in Openings
  BY <1>2 DEF Openings
<1>4. o2 \in [1 .. MAX_OPEN -> Openings]
  BY <1>2, <1>3
<1>5. \A k \in 1 .. MAX_OPEN : k # h => o2[k] = g.opens[k]
  BY <1>2
<1>6. o2[h].ent = g.opens[h].ent /\ o2[h].access = g.opens[h].access /\ o2[h].pos = p
  BY <1>2 DEF Openings
<1> HIDE DEF o2, g2
<1>7. FilesSound(g2) /\ g2.opens = o2 /\ g2.ents = g.ents /\ Used(g2) = Used(g) /\ DirOf(g2) = DirOf(g)
  BY <1>1, <1>4, OpensPut
<1>8. \A k \in 1 .. MAX_OPEN : o2[k].ent = g.opens[k].ent
  BY <1>5, <1>6
<1>9. StillOpen(g, g2)
  BY <1>7, <1>8 DEF StillOpen, OpensSound
<1>10. Hand(g2, h) = [Hand(g, h) EXCEPT !.pos = p]
  BY <1>6, <1>7 DEF Hand
<1>11. \A k \in 1 .. MAX_OPEN : k # h => Hand(g2, k) = Hand(g, k)
  BY <1>5, <1>7 DEF Hand
<1> QED BY <1>7, <1>9, <1>10, <1>11 DEF g2, Moves

(* A handle's name is in the directory, and shows its slot.                *)
LEMMA HandDir ==
  ASSUME NEW g, FilesSound(g), OpensSound(g), NEW h \in 1 .. MAX_OPEN, g.opens[h].ent # 0
  PROVE  LET i == g.opens[h].ent
             n == Hand(g, h).name
         IN  /\ n = g.ents[i].name /\ n \in DOMAIN DirOf(g)
             /\ DirOf(g)[n].bytes = Contents(g, i)
             /\ Contents(g, i) \in Seq(Octets) /\ Len(Contents(g, i)) = g.ents[i].len
<1> DEFINE i == g.opens[h].ent
<1>1. g \in Stores /\ NamesSound(g) /\ BytesSound(g)
  BY DEF FilesSound, Typed
<1>2. i \in Used(g) /\ i \in DOMAIN g.ents
  BY <1>1, UsedAre DEF OpensSound
<1> HIDE DEF i
<1>3. DOMAIN DirOf(g) = Taken(g) /\ g.ents[i].name \in Taken(g) /\ DirOf(g)[g.ents[i].name] = Shown(g, i)
  BY <1>1, <1>2, DirIs
<1>4. Contents(g, i) \in Seq(Octets) /\ Len(Contents(g, i)) = g.ents[i].len
  BY <1>1, <1>2, ContentsAre
<1>5. Hand(g, h).name = g.ents[i].name
  BY DEF Hand, i
<1> QED BY <1>3, <1>4, <1>5 DEF Shown, i

DataAt(s, p, want) == SubSeq(s, p + 1, IF p + want < Len(s) THEN p + want ELSE Len(s))

(* fs_read answers from what the directory shows.                          *)
LEMMA ReadIs ==
  ASSUME NEW g, FilesSound(g), OpensSound(g), NEW h \in 1 .. MAX_OPEN, g.opens[h].ent # 0,
         NEW want \in Nat
  PROVE  LET got  == fs_read(g, h, want)
             s    == DirOf(g)[Hand(g, h).name].bytes
             p    == Hand(g, h).pos
             data == DataAt(s, p, want)
         IN  /\ Hand(g, h).access = "WRITE" =>
                  got.fs = g /\ got.r = ACCESS /\ got.data = <<>>
             /\ Hand(g, h).access # "WRITE" =>
                  /\ got.r = Len(data) /\ got.data = data
                  /\ FilesSound(got.fs) /\ Moves(g, got.fs, h, p + Len(data))
                  /\ DirOf(got.fs) = DirOf(g)
<1> DEFINE o    == g.opens[h]
           got  == fs_read(g, h, want)
           s    == Contents(g, o.ent)
           n    == IF o.pos + want < Len(s) THEN o.pos + want ELSE Len(s)
           data == SubSeq(s, o.pos + 1, n)
           q    == o.pos + Len(data)
           g2   == [g EXCEPT !.opens[h].pos = q]
<1>1. IsOpen(g, h)
  BY DEF IsOpen
<1>2. got = IF o.access = "WRITE" THEN [fs |-> g, r |-> ACCESS, data |-> <<>>]
            ELSE [fs |-> g2, r |-> Len(data), data |-> data]
  BY <1>1 DEF fs_read
<1>3. Hand(g, h).pos = o.pos /\ Hand(g, h).access = o.access
  BY DEF Hand
<1>4. DirOf(g)[Hand(g, h).name].bytes = s /\ s \in Seq(Octets)
  BY HandDir
<1>5. o.pos \in Nat
  BY StoreParts DEF FilesSound, Typed
<1> HIDE DEF s, got, o
<1>6. Len(data) \in Nat
  <2>1. n \in Int /\ o.pos + 1 \in Int /\ o.pos + 1 >= 1 /\ n <= Len(s) /\ Len(s) \in Nat
    BY <1>4, <1>5
  <2> HIDE DEF n
  <2>2. \A k \in o.pos + 1 .. n : s[k] \in Octets
    <3> SUFFICES ASSUME NEW k \in o.pos + 1 .. n PROVE s[k] \in Octets
      OBVIOUS
    <3>1. k \in 1 .. Len(s)
      BY <1>5, <2>1
    <3> QED BY <1>4, <3>1
  <2>3. SubSeq(s, o.pos + 1, n) \in Seq(Octets)
    BY <2>1, <2>2, SubSeqProperties
  <2> QED BY <2>3
<1> HIDE DEF data
<1>8. FilesSound(g2) /\ Moves(g, g2, h, q) /\ DirOf(g2) = DirOf(g)
  <2>1. q \in Nat
    BY <1>5, <1>6
  <2> HIDE DEF q
  <2> QED BY <2>1, MovedIs
<1> HIDE DEF g2
<1> DEFINE S == DirOf(g)[Hand(g, h).name].bytes
           P == Hand(g, h).pos
<1>9. DataAt(S, P, want) = data
  BY <1>3, <1>4 DEF data, DataAt
<1>10. q = P + Len(data)
  BY <1>3
<1>11. /\ Hand(g, h).access = "WRITE" => got.fs = g /\ got.r = ACCESS /\ got.data = <<>>
       /\ Hand(g, h).access # "WRITE" =>
            /\ got.r = Len(data) /\ got.data = data
            /\ FilesSound(got.fs) /\ Moves(g, got.fs, h, P + Len(data))
            /\ DirOf(got.fs) = DirOf(g)
  BY <1>2, <1>3, <1>8, <1>10
<1> HIDE DEF S, P
<1> QED BY <1>9, <1>11 DEF got, S, P

(* fs_seek answers from where the handle is.                               *)
LEMMA SeekIs ==
  ASSUME NEW g, FilesSound(g), OpensSound(g), NEW h \in 1 .. MAX_OPEN, g.opens[h].ent # 0,
         NEW off \in Int, NEW origin
  PROVE  LET went == fs_seek(g, h, off, origin)
             to   == off + CASE origin = "CUR" -> Hand(g, h).pos
                             [] origin = "END" -> Len(DirOf(g)[Hand(g, h).name].bytes)
                             [] OTHER -> 0
         IN  /\ to < 0 => went = Answered(g, ACCESS)
             /\ ~(to < 0) => /\ went.r = to /\ FilesSound(went.fs) /\ Moves(g, went.fs, h, to)
                             /\ DirOf(went.fs) = DirOf(g)
<1> DEFINE o    == g.opens[h]
           went == fs_seek(g, h, off, origin)
           to   == off + CASE origin = "CUR" -> o.pos
                           [] origin = "END" -> g.ents[o.ent].len
                           [] OTHER -> 0
           g2   == [g EXCEPT !.opens[h].pos = to]
<1>1. IsOpen(g, h)
  BY DEF IsOpen
<1>2. went = IF to < 0 THEN Answered(g, ACCESS) ELSE Answered(g2, to)
  BY <1>1 DEF fs_seek
<1>3. Hand(g, h).pos = o.pos /\ Len(DirOf(g)[Hand(g, h).name].bytes) = g.ents[o.ent].len
  BY HandDir DEF Hand
<1>4. o.pos \in Nat /\ g.ents[o.ent].len \in Nat
  <2>1. g \in Stores
    BY DEF FilesSound, Typed
  <2>2. o.ent \in DOMAIN g.ents
    BY <2>1, UsedAre DEF OpensSound
  <2> QED BY <2>1, <2>2, StoreParts
<1>5. off + (CASE origin = "CUR" -> Hand(g, h).pos
               [] origin = "END" -> Len(DirOf(g)[Hand(g, h).name].bytes)
               [] OTHER -> 0) = to
  BY <1>3
<1>6. to \in Int
  BY <1>4
<1> HIDE DEF o, went, to, g2
<1>7. ASSUME ~(to < 0)
      PROVE  /\ went.r = to /\ FilesSound(went.fs) /\ Moves(g, went.fs, h, to)
             /\ DirOf(went.fs) = DirOf(g)
  <2>1. to \in Nat
    BY <1>6, <1>7
  <2>2. went.r = to /\ went.fs = g2
    BY <1>2, <1>7 DEF Answered
  <2> QED BY <2>1, <2>2, MovedIs DEF g2
<1> QED BY <1>2, <1>5, <1>7 DEF went

-----------------------------------------------------------------------------
(* What fs_write and fs_open do, as the DOS handles see it.                *)

(* fs_write answers and changes what DirSpec says.                         *)
LEMMA WriteDoes ==
  ASSUME NEW g, FilesSound(g), OpensSound(g), NEW h \in 1 .. MAX_OPEN, g.opens[h].ent # 0,
         NEW src \in Seq(Octets), fs_write(g, h, src).r # GIVENUP
  PROVE  LET put == fs_write(g, h, src)
             n   == Hand(g, h).name
             p   == Hand(g, h).pos
         IN  /\ Hand(g, h).access = "READ" => put = Answered(g, ACCESS)
             /\ Hand(g, h).access # "READ" =>
                  /\ put.r = Len(src) /\ FilesSound(put.fs) /\ Moves(g, put.fs, h, p + Len(src))
                  /\ src = <<>> => DirOf(put.fs) = DirOf(g)
                  /\ src # <<>> =>
                       DirOf(put.fs) = Overwritten(DirOf(g), n, p, src)
<1> DEFINE o   == g.opens[h]
           i   == o.ent
           put == fs_write(g, h, src)
           g2  == put.fs
<1>1. /\ o.access = "READ" => put = Answered(g, ACCESS)
      /\ o.access # "READ" /\ src = <<>> => put = Answered(Marked(g, i), 0)
      /\ o.access # "READ" /\ src # <<>> => put.r = Len(src) /\ Wrote(g, g2, h, i, o.pos, src)
  BY WriteIs
<1>2. Hand(g, h).access = o.access /\ Hand(g, h).pos = o.pos /\ Hand(g, h).name = g.ents[i].name
  BY DEF Hand
<1>3. g \in Stores /\ i \in Used(g) /\ o.pos \in Nat /\ NamesSound(g)
      /\ g.opens \in [1 .. MAX_OPEN -> Openings]
  BY StoreParts DEF FilesSound, Typed, OpensSound
<1>4. o = [ent |-> i, access |-> o.access, pos |-> o.pos]
  BY <1>3 DEF Openings
<1> HIDE DEF put, o, i
<1>5. ASSUME o.access # "READ", src = <<>>
      PROVE  /\ put.r = Len(src) /\ FilesSound(g2) /\ Moves(g, g2, h, o.pos + Len(src))
             /\ DirOf(g2) = DirOf(g)
  <2>1. g2 = Marked(g, i) /\ put.r = 0 /\ Len(src) = 0
    BY <1>1, <1>5 DEF Answered
  <2> HIDE DEF g2
  <2>2. /\ FilesSound(g2) /\ SameNames(g, g2) /\ g2.opens = g.opens
        /\ \A j \in DOMAIN g.ents : Contents(g2, j) = Contents(g, j)
    <3>1. LET gm == Marked(g, i) IN
          /\ FilesSound(gm) /\ SameNames(g, gm) /\ gm.opens = g.opens
          /\ \A j \in DOMAIN g.ents : Contents(gm, j) = Contents(g, j)
      BY <1>3, MarkedIs
    <3> QED BY <2>1, <3>1
  <2>3. g2 \in Stores /\ Used(g2) = Used(g) /\ Taken(g2) = Taken(g) /\ NamesSound(g2)
        /\ Used(g) \subseteq DOMAIN g.ents
    BY <1>3, <2>2, SameNamesKeep, UsedAre DEF FilesSound, Typed
  <2>4. \A j \in Used(g) : g2.ents[j].name = g.ents[j].name /\ g2.ents[j].isdir = g.ents[j].isdir
    BY <2>2, <2>3 DEF SameNames
  <2>5. Keeps(g, g2)
    BY <2>2, <2>3, <2>4 DEF Keeps, OpensSound
  <2>6. StillOpen(g, g2)
    BY <2>5 DEF Keeps, StillOpen
  <2>7. \A k \in 1 .. MAX_OPEN : g.opens[k].ent # 0 => Hand(g2, k) = Hand(g, k)
    BY <2>5 DEF Keeps, Hand
  <2>8. Hand(g2, h) = [Hand(g, h) EXCEPT !.pos = o.pos + Len(src)]
    <3>1. o.pos + Len(src) = o.pos
      BY <1>3, <2>1
    <3> QED BY <1>2, <2>7, <3>1 DEF Hand
  <2>9. Moves(g, g2, h, o.pos + Len(src))
    BY <2>6, <2>7, <2>8 DEF Moves
  <2>10. DirOf(g2) = DirOf(g)
    <3> DEFINE D == DirOf(g)
    <3>1. D = [x \in Taken(g2) |-> D[x]]
      BY <1>3, <2>3, DirIs
    <3>2. \A j \in Used(g2) : D[g2.ents[j].name] = Shown(g2, j)
      <4>1. \A j \in Used(g) : D[g.ents[j].name] = Shown(g, j)
        BY <1>3, DirIs
      <4>2. \A j \in Used(g) : Shown(g2, j) = Shown(g, j)
        BY <2>2, <2>3, <2>4 DEF Shown
      <4> QED BY <2>3, <2>4, <4>1, <4>2
    <3> HIDE DEF D
    <3>3. DirOf(g2) = D
      BY <2>3, <3>1, <3>2, DirEq
    <3> QED BY <3>3 DEF D
  <2> QED BY <2>1, <2>2, <2>9, <2>10
<1>6. ASSUME o.access # "READ", src # <<>>
      PROVE  /\ put.r = Len(src) /\ FilesSound(g2) /\ Moves(g, g2, h, o.pos + Len(src))
             /\ DirOf(g2) = Overwritten(DirOf(g), g.ents[i].name, o.pos, src)
  <2>1. put.r = Len(src) /\ Wrote(g, g2, h, i, o.pos, src)
    BY <1>1, <1>6
  <2> HIDE DEF g2
  <2>2. /\ DirOf(g2) = Overwritten(DirOf(g), g.ents[i].name, o.pos, src)
        /\ FilesSound(g2) /\ Used(g2) = Used(g)
        /\ \A j \in Used(g) : g2.ents[j].name = g.ents[j].name /\ g2.ents[j].isdir = g.ents[j].isdir
    BY <1>3, <2>1, WroteDir
  <2>3. g2.opens = [g.opens EXCEPT ![h].pos = o.pos + Len(src)]
    BY <2>1 DEF Wrote
  <2>4. /\ \A k \in 1 .. MAX_OPEN : k # h => g2.opens[k] = g.opens[k]
        /\ g2.opens[h] = [o EXCEPT !.pos = o.pos + Len(src)]
    BY <1>3, <2>3 DEF o
  <2>5. g2.opens[h].ent = i /\ g2.opens[h].access = o.access /\ g2.opens[h].pos = o.pos + Len(src)
    BY <1>4, <2>4
  <2>6. \A k \in 1 .. MAX_OPEN : g2.opens[k].ent = g.opens[k].ent
    BY <2>4, <2>5 DEF i, o
  <2>7. StillOpen(g, g2)
    BY <2>2, <2>6 DEF StillOpen, OpensSound
  <2>8. Hand(g2, h) = [Hand(g, h) EXCEPT !.pos = o.pos + Len(src)]
    BY <1>2, <1>3, <2>2, <2>5 DEF Hand
  <2>9. \A k \in 1 .. MAX_OPEN : k # h /\ g.opens[k].ent # 0 => Hand(g2, k) = Hand(g, k)
    BY <2>2, <2>4 DEF Hand, OpensSound
  <2> QED BY <2>1, <2>2, <2>7, <2>8, <2>9 DEF Moves
<1> QED BY <1>1, <1>2, <1>5, <1>6 DEF put

\* What fs_open leaves of the directory.
OpenedDir(g, name, disposition) ==
  IF disposition = "EXISTING" THEN DirOf(g) ELSE Dir!With(DirOf(g), name, Dir!File(<<>>))

\* A handle got, for which there is a DOS handle, or none.
GotHandle(g, table, got, D, name, access) ==
  /\ got.r \in 1 .. MAX_OPEN
  /\ FreeOf(table) = {} =>
       LET g3 == NoRoom(got.fs, got.r) IN
       AllSound(g3, table) /\ DirOf(g3) = D /\ HandsOf(g3, table) = HandsOf(g, table)
  /\ \A fd \in FreeOf(table) :
       LET t2 == [table EXCEPT ![fd] = NewFd(got.r)] IN
       /\ AllSound(got.fs, t2) /\ DirOf(got.fs) = D
       /\ HandsOf(got.fs, t2) = Dir!With(HandsOf(g, table), fd, NewHand(name, access))
       /\ ImageOf(t2) = ImageOf(table)

GotNone(g, table, got, D) ==
  /\ got.r = TOOMANY /\ FreeOf(table) = {}
  /\ AllSound(got.fs, table) /\ DirOf(got.fs) = D /\ HandsOf(got.fs, table) = HandsOf(g, table)

(* fs_open, with the handle it gives or is refused.                        *)
LEMMA OpenDoes ==
  ASSUME NEW g, NEW table, AllSound(g, table), NEW path \in Names,
         NEW access \in {"READ", "WRITE", "RDWR"},
         NEW disposition \in {"EXISTING", "CREATE", "CREATE_NEW"}
  PROVE  LET name == Resolved(g, path)
             why  == Refused(g, name, disposition)
             got  == fs_open(g, path, access, disposition)
             D    == OpenedDir(g, name, disposition)
         IN  /\ why # 0 => got = Answered(g, why)
             /\ why = 0 => GotNone(g, table, got, D) \/ GotHandle(g, table, got, D, name, access)
<1> DEFINE name == Resolved(g, path)
           why  == Refused(g, name, disposition)
           got  == fs_open(g, path, access, disposition)
           D    == OpenedDir(g, name, disposition)
<1>1. FilesSound(g) /\ OpensSound(g) /\ FdsSound(g, table)
  BY DEF AllSound
<1>2. /\ why # 0 => got = Answered(g, why)
      /\ why = 0 => \E g1, i : Ready(g, g1, i, name, disposition) /\ got = Handed(g1, i, access)
  BY <1>1, FsOpenIs
<1> HIDE DEF name, why, got
<1>3. ASSUME NEW g1, NEW i, Ready(g, g1, i, name, disposition), got = Handed(g1, i, access)
      PROVE  GotNone(g, table, got, D) \/ GotHandle(g, table, got, D, name, access)
  <2>1. /\ FilesSound(g1) /\ g1.opens = g.opens /\ DirOf(g1) = D
        /\ i \in Used(g1) /\ g1.ents[i].name = name /\ ~g1.ents[i].isdir
    BY <1>3 DEF Ready, OpenedDir
  <2>2. Keeps(g, g1)
    BY <1>1, <1>3 DEF Ready, Keeps, OpensSound
  <2>3. OpensSound(g1) /\ FdsSound(g1, table) /\ HandsOf(g1, table) = HandsOf(g, table)
    BY <1>1, <2>2, KeepsHands
  <2>4. g1 \in Stores /\ i \in Nat /\ i # 0
    <3>1. g1 \in Stores
      BY <2>1 DEF FilesSound, Typed
    <3> QED BY <2>1, <3>1, StoreParts, UsedAre
  <2>5. CASE got = Answered(g1, TOOMANY) /\ \A h \in 1 .. MAX_OPEN : g1.opens[h].ent # 0
    <3>1. FreeOf(table) = {}
      BY <2>3, <2>5, NoneFree
    <3> QED BY <2>1, <2>3, <2>5, <3>1 DEF GotNone, AllSound, Answered
  <2>6. ASSUME NEW h \in 1 .. MAX_OPEN, g1.opens[h].ent = 0,
               got = Answered([g1 EXCEPT !.opens[h] = [ent |-> i, access |-> access, pos |-> 0]], h)
        PROVE  GotHandle(g, table, got, D, name, access)
    <3> DEFINE o2 == [ent |-> i, access |-> access, pos |-> 0]
               g2 == [g1 EXCEPT !.opens[h] = o2]
               g3 == [g2 EXCEPT !.opens[h] = NotOpen]
               oc == [g1.opens EXCEPT ![h] = NotOpen]
    <3>1. got.r = h /\ got.fs = g2
      BY <2>6 DEF Answered
    <3>2. o2 \in Openings /\ NotOpen \in Openings
      BY <2>4 DEF Openings, NotOpen
    <3>3. g1.opens \in [1 .. MAX_OPEN -> Openings]
      BY <2>4, StoreParts
    <3> DEFINE ob == [g1.opens EXCEPT ![h] = o2]
    <3>4. ob \in [1 .. MAX_OPEN -> Openings] /\ oc \in [1 .. MAX_OPEN -> Openings]
      BY <3>2, <3>3
    <3>5. g2 = [g1 EXCEPT !.opens = ob]
      OBVIOUS
    <3>6. FilesSound(g2) /\ DirOf(g2) = D /\ g2.ents = g1.ents
      <4> HIDE DEF ob, g2
      <4>1. FilesSound(g2) /\ g2.ents = g1.ents /\ DirOf(g2) = DirOf(g1)
        BY <2>1, <3>4, <3>5, OpensPut
      <4> QED BY <2>1, <4>1
    <3>7. g3 = [g1 EXCEPT !.opens = oc]
      BY <2>4, <3>3 DEF Stores
    <3>8. IsOpen(g2, h)
      BY <2>4, <2>6, HandlePut DEF IsOpen
    <3>9. NoRoom(g2, h) = g3
      BY <3>8 DEF NoRoom, fs_close, Answered
    <3>10. ASSUME FreeOf(table) = {}
           PROVE  AllSound(g3, table) /\ DirOf(g3) = D /\ HandsOf(g3, table) = HandsOf(g, table)
      <4> HIDE DEF g3, oc, g2
      <4>1. /\ FilesSound(g3) /\ g3.opens = oc /\ g3.ents = g1.ents /\ Used(g3) = Used(g1)
            /\ DirOf(g3) = D
        BY <2>1, <3>4, <3>7, OpensPut
      <4>2. \A k \in 1 .. MAX_OPEN : k # h => oc[k] = g1.opens[k]
        BY <3>3 DEF oc
      <4>3. oc[h].ent = 0
        BY <3>3 DEF oc, NotOpen
      <4>4. StillOpen(g1, g3)
        BY <2>3, <2>6, <4>1, <4>2, <4>3 DEF StillOpen, OpensSound
      <4>5. \A k \in 1 .. MAX_OPEN : g1.opens[k].ent # 0 => Hand(g3, k) = Hand(g1, k)
        BY <2>6, <4>1, <4>2 DEF Hand
      <4>6. OpensSound(g3) /\ FdsSound(g3, table) /\ HandsOf(g3, table) = HandsOf(g1, table)
        BY <2>3, <4>4, <4>5, StillSound, HandsStay
      <4> QED BY <2>3, <4>1, <4>6 DEF AllSound
    <3>11. ASSUME NEW fd \in FreeOf(table)
           PROVE  LET t2 == [table EXCEPT ![fd] = NewFd(h)] IN
                  /\ AllSound(g2, t2) /\ DirOf(g2) = D
                  /\ HandsOf(g2, t2) = Dir!With(HandsOf(g, table), fd, NewHand(name, access))
                  /\ ImageOf(t2) = ImageOf(table)
      <4> DEFINE t2 == [table EXCEPT ![fd] = NewFd(h)]
      <4>1. GivenTo(g1, table, h, i, access, fd)
        BY <2>1, <2>3, <2>4, <2>6, GivenHands
      <4>2. /\ OpensSound(g2) /\ FdsSound(g2, t2)
            /\ HandsOf(g2, t2) = Dir!With(HandsOf(g1, table), fd, NewHand(g1.ents[i].name, access))
            /\ ImageOf(t2) = ImageOf(table)
        BY <4>1 DEF GivenTo
      <4> HIDE DEF t2, g2
      <4> QED BY <2>1, <2>3, <3>6, <4>2 DEF AllSound, t2
    <3> HIDE DEF g2, g3
    <3>12. h \in 1 .. MAX_OPEN
      OBVIOUS
    <3> QED BY <3>1, <3>9, <3>10, <3>11, <3>12 DEF GotHandle
  <2> QED BY <1>3, <2>5, <2>6, HandedIs
<1> QED BY <1>2, <1>3 DEF name, why, got

-----------------------------------------------------------------------------
(* The actions: each keeps IInv and is DirSpec's action of its name.       *)

(* What DirSpec reads off the directory, the code reads off its tables.    *)
LEMMA BridgeIs ==
  ASSUME AllSound(fs, fds)
  PROVE  /\ \A n : Dir!IsDir(n) <=> IsDir(fs, n)
         /\ \A path : Dir!Named(path) = Resolved(fs, path) /\ Dir!Front(path) = Front(path)
         /\ DOMAIN DirOf(fs) = Taken(fs)
         /\ Dir!Full <=> Cardinality(Taken(fs)) = MAX_ENTRIES
         /\ \A n, disposition : Dir!Refusal(n, disposition) = Refused(fs, n, disposition)
         /\ Dir!Free = FreeOf(fds) /\ FreeFds = FreeOf(fds)
         /\ DOMAIN HandsOf(fs, fds) = FilesOf(fds) /\ DOMAIN ImageOf(fds) = ImagesOf(fds)
         /\ FreeFds # {} => /\ Dir!NextFree = Least(FreeFds)
                            /\ Least(FreeFds) \in FreeOf(fds) /\ Least(FreeFds) \in 1 .. NFiles
<1>1. FilesSound(fs) /\ OpensSound(fs) /\ FdsSound(fs, fds) /\ fs \in Stores /\ NamesSound(fs)
  BY DEF AllSound, FilesSound, Typed
<1>2. /\ DOMAIN DirOf(fs) = Taken(fs)
      /\ \A n : n \in Taken(fs) <=> Found(fs, n) # 0
      /\ \A n \in Taken(fs) : DirOf(fs)[n] = Shown(fs, Found(fs, n))
  BY <1>1, DirIs
<1>3. \A n : Dir!IsDir(n) <=> IsDir(fs, n)
  BY <1>2 DEF Dir!IsDir, IsDir, Shown
<1>4. \A path : Dir!Named(path) = Resolved(fs, path) /\ Dir!Front(path) = Front(path)
  BY <1>3 DEF Dir!Named, Resolved, Dir!Front, Front, Dir!Last, Last
<1>5. Dir!Full <=> Cardinality(Taken(fs)) = MAX_ENTRIES
  <2>1. \A S : Dir!Cardinality(S) = Cardinality(S)
    BY DEF Dir!Cardinality, Cardinality
  <2> QED BY <1>2, <2>1 DEF Dir!Full
<1>6. \A n, disposition : Dir!Refusal(n, disposition) = Refused(fs, n, disposition)
  BY <1>2, <1>3, <1>5 DEF Dir!Refusal, Refused, NOTFOUND, ACCESS
<1>7. DOMAIN HandsOf(fs, fds) = FilesOf(fds) /\ DOMAIN ImageOf(fds) = ImagesOf(fds)
  BY HandsAre
<1>8. Dir!Free = FreeOf(fds)
  BY <1>1, <1>7, TableIs DEF Dir!Free
<1>9. FreeFds = FreeOf(fds)
  BY DEF FreeFds, FreeOf, Ok
<1>10. ASSUME FreeFds # {}
       PROVE  /\ Dir!NextFree = Least(FreeFds)
              /\ Least(FreeFds) \in FreeOf(fds) /\ Least(FreeFds) \in 1 .. NFiles
  <2>1. Dir!NextFree = Least(FreeFds)
    BY <1>8, <1>9 DEF Dir!NextFree, Least
  <2>2. FreeFds \in SUBSET Nat
    BY DEF FreeFds
  <2>3. Least(FreeFds) \in FreeFds
    BY <1>10, <2>2, LeastIs
  <2> QED BY <1>9, <2>1, <2>3 DEF FreeFds
<1> QED BY <1>2, <1>3, <1>4, <1>5, <1>6, <1>7, <1>8, <1>9, <1>10

(* The reasons to refuse an open are DirSpec's.                            *)
LEMMA RefusedIs ==
  ASSUME NEW g, NEW name, NEW disposition
  PROVE  Refused(g, name, disposition) \in {NOTFOUND, ACCESS, 0}
BY DEF Refused

\* What each action of the guest's makes of IInv and of DirSpec.
LEMMA OpenKept ==
  ASSUME IInv, NEW path \in Names, NEW access \in {"READ", "WRITE", "RDWR"},
         NEW disposition \in {"EXISTING", "CREATE", "CREATE_NEW"},
         Open(path, access, disposition)
  PROVE  IInv' /\ Dir!Open(path, access, disposition) /\ ret'.op = "open"
<1> DEFINE got  == fs_open(fs, path, access, disposition)
           name == Resolved(fs, path)
           why  == Refused(fs, name, disposition)
           D    == OpenedDir(fs, name, disposition)
<1>1. AllSound(fs, fds) /\ over \in BOOLEAN /\ over' = over
  BY DEF IInv, Open
<1>2. /\ why # 0 => got = Answered(fs, why)
      /\ why = 0 => GotNone(fs, fds, got, D) \/ GotHandle(fs, fds, got, D, name, access)
  BY <1>1, OpenDoes
<1>3. /\ Dir!Named(path) = name /\ Dir!Refusal(name, disposition) = why
      /\ Dir!Free = FreeOf(fds) /\ FreeFds = FreeOf(fds)
      /\ FreeFds # {} => /\ Dir!NextFree = Least(FreeFds)
                         /\ Least(FreeFds) \in FreeOf(fds)
  BY <1>1, BridgeIs
<1>4. \/ got.r < 0 /\ fs' = got.fs /\ fds' = fds /\ ret' = Answer("open", got.r, <<>>)
      \/ /\ got.r > 0 /\ FreeFds = {} /\ fs' = NoRoom(got.fs, got.r) /\ fds' = fds
         /\ ret' = Answer("open", TOOMANY, <<>>)
      \/ /\ got.r > 0 /\ FreeFds # {} /\ fs' = got.fs
         /\ fds' = [fds EXCEPT ![Least(FreeFds)] = NewFd(got.r)]
         /\ ret' = Answer("open", Least(FreeFds), <<>>)
  BY DEF Open, Said, NewFd
<1>5. why \in {NOTFOUND, ACCESS, 0}
  BY RefusedIs
<1>6. \A op, r : Dir!Answer(op, r, <<>>) = Answer(op, r, <<>>) /\ Answer(op, r, <<>>).op = op
  BY DEF Dir!Answer, Answer
<1>7. D = IF disposition = "EXISTING" THEN DirOf(fs) ELSE Dir!With(DirOf(fs), name, Dir!File(<<>>))
  BY DEF OpenedDir
<1> HIDE DEF got, name, why, D
<1>8. CASE why # 0
  <2>1. got.r = why /\ got.fs = fs /\ got.r < 0 /\ ~(got.r > 0)
    BY <1>2, <1>5, <1>8 DEF Answered, NOTFOUND, ACCESS
  <2>2. fs' = fs /\ fds' = fds /\ ret' = Answer("open", why, <<>>)
    BY <1>4, <2>1
  <2>3. IInv'
    BY <1>1, <2>2 DEF IInv
  <2>4. Dir!Refuse("open", why)
    BY <1>1, <1>6, <2>2 DEF Dir!Refuse
  <2> QED BY <1>3, <1>6, <1>8, <2>2, <2>3, <2>4 DEF Dir!Open
<1>9. CASE why = 0
  <2>1. CASE GotNone(fs, fds, got, D)
    <3>1. /\ got.r = TOOMANY /\ FreeOf(fds) = {} /\ AllSound(got.fs, fds)
          /\ DirOf(got.fs) = D /\ HandsOf(got.fs, fds) = HandsOf(fs, fds)
      BY <2>1 DEF GotNone
    <3>2. fs' = got.fs /\ fds' = fds /\ ret' = Answer("open", -4, <<>>)
      BY <1>4, <3>1 DEF TOOMANY
    <3>3. IInv'
      BY <1>1, <3>1, <3>2 DEF IInv
    <3>4. HandsOf(fs, fds)' = HandsOf(fs, fds) /\ ImageOf(fds)' = ImageOf(fds) /\ DirOf(fs)' = D
      BY <3>1, <3>2
    <3>5. Dir!Free = {}
      BY <1>3, <3>1
    <3> QED BY <1>1, <1>3, <1>6, <1>7, <1>9, <3>2, <3>3, <3>4, <3>5 DEF Dir!Open
  <2>2. CASE GotHandle(fs, fds, got, D, name, access)
    <3>1. got.r > 0 /\ ~(got.r < 0)
      <4>1. got.r \in 1 .. MAX_OPEN
        BY <2>2 DEF GotHandle
      <4> QED BY <4>1, MemConstants
    <3>2. CASE FreeFds = {}
      <4> DEFINE g3 == NoRoom(got.fs, got.r)
      <4>1. AllSound(g3, fds) /\ DirOf(g3) = D /\ HandsOf(g3, fds) = HandsOf(fs, fds)
        BY <1>3, <2>2, <3>2 DEF GotHandle
      <4>2. fs' = g3 /\ fds' = fds /\ ret' = Answer("open", -4, <<>>)
        BY <1>4, <3>1, <3>2 DEF TOOMANY
      <4> HIDE DEF g3
      <4>3. IInv'
        BY <1>1, <4>1, <4>2 DEF IInv
      <4>4. HandsOf(fs, fds)' = HandsOf(fs, fds) /\ ImageOf(fds)' = ImageOf(fds) /\ DirOf(fs)' = D
        BY <4>1, <4>2
      <4>5. Dir!Free = {}
        BY <1>3, <3>2
      <4> QED BY <1>1, <1>3, <1>6, <1>7, <1>9, <4>2, <4>3, <4>4, <4>5 DEF Dir!Open
    <3>3. CASE FreeFds # {}
      <4> DEFINE fd == Least(FreeFds)
                 t2 == [fds EXCEPT ![fd] = NewFd(got.r)]
      <4>1. /\ AllSound(got.fs, t2) /\ DirOf(got.fs) = D
            /\ HandsOf(got.fs, t2) = Dir!With(HandsOf(fs, fds), fd, NewHand(name, access))
            /\ ImageOf(t2) = ImageOf(fds)
        BY <1>3, <2>2, <3>3 DEF GotHandle
      <4>2. fs' = got.fs /\ fds' = t2 /\ ret' = Answer("open", fd, <<>>)
        BY <1>4, <3>1, <3>3
      <4>3. Dir!Free # {} /\ Dir!NextFree = fd
        BY <1>3, <3>3
      <4> HIDE DEF t2, fd
      <4>4. IInv'
        BY <1>1, <4>1, <4>2 DEF IInv
      <4>5. /\ HandsOf(fs, fds)' = Dir!With(HandsOf(fs, fds), fd, NewHand(name, access))
            /\ ImageOf(fds)' = ImageOf(fds) /\ DirOf(fs)' = D
        BY <4>1, <4>2
      <4>6. NewHand(name, access) = [name |-> name, access |-> access, pos |-> 0]
        BY DEF NewHand
      <4> QED BY <1>1, <1>3, <1>6, <1>7, <1>9, <4>2, <4>3, <4>4, <4>5, <4>6 DEF Dir!Open
    <3> QED BY <3>2, <3>3
  <2> QED BY <1>2, <1>9, <2>1, <2>2
<1> QED BY <1>8, <1>9

(* An answer here is an answer there.                                      *)
LEMMA AnswersAre ==
  /\ \A op, r, data : Dir!Answer(op, r, data) = Answer(op, r, data) /\ Answer(op, r, data).op = op
  /\ Dir!ImageLen = ImageLen
BY DEF Dir!Answer, Answer, Dir!ImageLen, ImageLen

(* A refusal changes nothing but the answer.                               *)
LEMMA RefuseIs ==
  ASSUME NEW op, NEW why, IInv, over' = over, fs' = fs, fds' = fds, Said(op, why)
  PROVE  IInv' /\ Dir!Refuse(op, why) /\ ret'.op = op
<1>1. IInv'
  BY DEF IInv
<1>2. ret' = Answer(op, why, <<>>)
  BY DEF Said
<1>3. ret' = Dir!Answer(op, why, <<>>) /\ ret'.op = op
  BY <1>2, AnswersAre
<1>4. Dir!Refuse(op, why)
  BY <1>3 DEF Dir!Refuse
<1> QED BY <1>1, <1>3, <1>4

(* dos_open_mem.                                                           *)
LEMMA OpenImageKept ==
  ASSUME IInv, OpenImage
  PROVE  IInv' /\ Dir!OpenImage /\ ret'.op = "image"
<1>1. AllSound(fs, fds) /\ over' = over /\ fs' = fs
  BY DEF IInv, OpenImage
<1>2. /\ Dir!Free = FreeOf(fds) /\ FreeFds = FreeOf(fds)
      /\ FreeFds # {} => /\ Dir!NextFree = Least(FreeFds)
                         /\ Least(FreeFds) \in FreeOf(fds) /\ Least(FreeFds) \in 1 .. NFiles
  BY <1>1, BridgeIs
<1>3. CASE FreeFds = {}
  <2>1. Said("image", TOOMANY) /\ fds' = fds
    BY <1>3 DEF OpenImage
  <2>2. IInv' /\ Dir!Refuse("image", TOOMANY) /\ ret'.op = "image"
    BY <1>1, <2>1, RefuseIs
  <2>3. Dir!OpenImage
    BY <1>2, <1>3, <2>2 DEF Dir!OpenImage, TOOMANY
  <2> QED BY <2>2, <2>3
<1>4. CASE FreeFds # {}
  <2> DEFINE fd == Least(FreeFds)
             new == [NoFd EXCEPT !.kind = "MEM"]
             t2 == [fds EXCEPT ![fd] = new]
  <2>1. fds' = t2 /\ ret' = Answer("image", fd, <<>>)
    BY <1>4 DEF OpenImage, Said
  <2>2. Dir!Free # {} /\ Dir!NextFree = fd /\ fd \in FreeOf(fds) /\ fd \in 1 .. NFiles
    BY <1>2, <1>4
  <2>3. new \in Fds /\ new.kind = "MEM" /\ new.pos = 0
    BY MemConstants DEF NoFd, Fds, ImageLen
  <2>4. fds[fd].kind = "FREE" /\ FdsSound(fs, fds)
    BY <1>1, <2>2 DEF FreeOf, AllSound
  <2> HIDE DEF new, fd
  <2>5. /\ FdsSound(fs, t2) /\ HandsOf(fs, t2) = HandsOf(fs, fds)
        /\ ImageOf(t2) = Dir!With(ImageOf(fds), fd, 0)
    BY <2>2, <2>3, <2>4, ImagePut
  <2> HIDE DEF t2
  <2>6. IInv'
    BY <1>1, <2>1, <2>5 DEF IInv, AllSound
  <2>7. /\ DirOf(fs)' = DirOf(fs) /\ HandsOf(fs, fds)' = HandsOf(fs, fds)
        /\ ImageOf(fds)' = Dir!With(ImageOf(fds), fd, 0)
    BY <1>1, <2>1, <2>5
  <2> QED BY <1>1, <2>1, <2>2, <2>6, <2>7, AnswersAre DEF Dir!OpenImage
<1> QED BY <1>3, <1>4

(* fd_close.                                                               *)
LEMMA CloseKept ==
  ASSUME IInv, NEW fd \in 1 .. NFiles, Close(fd)
  PROVE  IInv' /\ Dir!Close(fd) /\ ret'.op = "close"
<1>1. AllSound(fs, fds) /\ over' = over /\ FdsSound(fs, fds) /\ FilesSound(fs) /\ OpensSound(fs)
  BY DEF IInv, Close, AllSound
<1>2. /\ Dir!Free = FreeOf(fds)
      /\ DOMAIN HandsOf(fs, fds) = FilesOf(fds) /\ DOMAIN ImageOf(fds) = ImagesOf(fds)
      /\ HandsOf(fs, fds) = [x \in FilesOf(fds) |-> HandsOf(fs, fds)[x]]
  BY <1>1, BridgeIs DEF HandsOf, FilesOf
<1>3. /\ fds[fd].kind \in {"FREE", "FILE", "MEM"}
      /\ fd \in FilesOf(fds) <=> fds[fd].kind = "FILE"
      /\ fd \in ImagesOf(fds) <=> fds[fd].kind = "MEM"
      /\ fd \in FreeOf(fds) <=> fds[fd].kind = "FREE"
  BY <1>1, TableIs
<1>4. CASE fds[fd].kind = "FREE"
  <2>1. Said("close", BADHAND) /\ fs' = fs /\ fds' = fds
    BY <1>4 DEF Close, Ok
  <2>2. IInv' /\ Dir!Refuse("close", BADHAND) /\ ret'.op = "close"
    BY <1>1, <2>1, RefuseIs
  <2> QED BY <1>2, <1>3, <1>4, <2>2 DEF Dir!Close, BADHAND
<1>5. CASE fds[fd].kind # "FREE"
  <2> DEFINE t2 == [fds EXCEPT ![fd] = NoFd]
  <2>1. /\ fs' = IF IsFile(fd) THEN fs_close(fs, fds[fd].fh).fs ELSE fs
        /\ fds' = t2 /\ ret' = Answer("close", 0, <<>>)
    BY <1>5 DEF Close, Said, Ok
  <2>2. fd \notin Dir!Free
    BY <1>2, <1>3, <1>5
  <2>3. CASE fds[fd].kind = "FILE"
    <3> DEFINE g2 == [fs EXCEPT !.opens[fds[fd].fh] = NotOpen]
    <3>1. fs' = g2
      <4>1. IsOpen(fs, fds[fd].fh)
        BY <1>1, <1>3, <2>3, TableIs DEF IsOpen
      <4> QED BY <2>1, <2>3, <4>1 DEF IsFile, fs_close, Answered
    <3>2. fs \in Stores
      BY <1>1 DEF FilesSound, Typed
    <3>3. /\ OpensSound(g2) /\ FdsSound(g2, t2)
          /\ HandsOf(g2, t2) = Dir!Without(HandsOf(fs, fds), fd)
          /\ ImageOf(t2) = Dir!Without(ImageOf(fds), fd)
      BY <1>1, <1>3, <2>3, <3>2, ClosedHands
    <3>4. FilesSound(g2) /\ DirOf(g2) = DirOf(fs)
      <4> DEFINE h == fds[fd].fh
                 o2 == [fs.opens EXCEPT ![h] = NotOpen]
      <4>1. NotOpen \in Openings /\ fs.opens \in [1 .. MAX_OPEN -> Openings]
        BY <3>2, StoreParts DEF NotOpen, Openings
      <4>2. o2 \in [1 .. MAX_OPEN -> Openings]
        BY <4>1
      <4>3. g2 = [fs EXCEPT !.opens = o2]
        OBVIOUS
      <4> HIDE DEF o2, g2
      <4> QED BY <1>1, <4>2, <4>3, OpensPut
    <3> HIDE DEF g2, t2
    <3>5. IInv'
      BY <1>1, <2>1, <3>1, <3>3, <3>4 DEF IInv, AllSound
    <3>6. /\ DirOf(fs)' = DirOf(fs) /\ HandsOf(fs, fds)' = Dir!Without(HandsOf(fs, fds), fd)
          /\ ImageOf(fds)' = Dir!Without(ImageOf(fds), fd)
      BY <2>1, <3>1, <3>3, <3>4
    <3> QED BY <1>1, <2>1, <2>2, <3>5, <3>6, AnswersAre DEF Dir!Close
  <2>4. CASE fds[fd].kind = "MEM"
    <3>1. fs' = fs
      BY <2>1, <2>4 DEF IsFile
    <3>2. NoFd \in Fds /\ NoFd.kind = "FREE"
      BY MemConstants DEF NoFd, Fds, ImageLen
    <3>3. /\ FdsSound(fs, t2) /\ HandsOf(fs, t2) = HandsOf(fs, fds)
          /\ ImageOf(t2) = Dir!Without(ImageOf(fds), fd)
      BY <1>1, <2>4, <3>2, ImagePut
    <3> HIDE DEF t2
    <3>4. Dir!Without(HandsOf(fs, fds), fd) = HandsOf(fs, fds)
      <4>1. fd \notin FilesOf(fds)
        BY <1>3, <2>4
      <4> QED BY <1>2, <4>1, WithoutNothing
    <3>5. IInv'
      BY <1>1, <2>1, <3>1, <3>3 DEF IInv, AllSound
    <3>6. /\ DirOf(fs)' = DirOf(fs) /\ HandsOf(fs, fds)' = Dir!Without(HandsOf(fs, fds), fd)
          /\ ImageOf(fds)' = Dir!Without(ImageOf(fds), fd)
      BY <2>1, <3>1, <3>3, <3>4
    <3> QED BY <1>1, <2>1, <2>2, <3>5, <3>6, AnswersAre DEF Dir!Close
  <2> QED BY <1>3, <1>5, <2>3, <2>4
<1> QED BY <1>4, <1>5

(* With, at a name that is there.                                          *)
LEMMA WithIs ==
  ASSUME NEW f, NEW D, f = [z \in D |-> f[z]], NEW x \in D, NEW y
  PROVE  Dir!With(f, x, y) = [f EXCEPT ![x] = y]
<1>1. DOMAIN f = D /\ D \cup {x} = D
  OBVIOUS
<1> QED BY <1>1 DEF Dir!With

(* A DOS handle that is a file's, seen from both sides.                    *)
LEMMA HandIs ==
  ASSUME IInv, NEW fd \in 1 .. NFiles
  PROVE  /\ AllSound(fs, fds) /\ FdsSound(fs, fds) /\ FilesSound(fs) /\ OpensSound(fs)
         /\ Dir!Free = FreeOf(fds)
         /\ DOMAIN HandsOf(fs, fds) = FilesOf(fds) /\ DOMAIN ImageOf(fds) = ImagesOf(fds)
         /\ fds[fd].kind \in {"FREE", "FILE", "MEM"}
         /\ fd \in FilesOf(fds) <=> fds[fd].kind = "FILE"
         /\ fd \in ImagesOf(fds) <=> fds[fd].kind = "MEM"
         /\ fd \in FreeOf(fds) <=> fds[fd].kind = "FREE"
         /\ IsFile(fd) <=> fds[fd].kind = "FILE"
         /\ Ok(fd) <=> fds[fd].kind # "FREE"
         /\ fds[fd].kind = "FILE" =>
              /\ fds[fd].fh \in 1 .. MAX_OPEN /\ fs.opens[fds[fd].fh].ent # 0
              /\ HandsOf(fs, fds)[fd] = Hand(fs, fds[fd].fh)
<1>1. AllSound(fs, fds) /\ FdsSound(fs, fds) /\ FilesSound(fs) /\ OpensSound(fs)
  BY DEF IInv, AllSound
<1>2. /\ Dir!Free = FreeOf(fds)
      /\ DOMAIN HandsOf(fs, fds) = FilesOf(fds) /\ DOMAIN ImageOf(fds) = ImagesOf(fds)
  BY <1>1, BridgeIs
<1>3. /\ fds[fd].kind \in {"FREE", "FILE", "MEM"}
      /\ fd \in FilesOf(fds) <=> fds[fd].kind = "FILE"
      /\ fd \in ImagesOf(fds) <=> fds[fd].kind = "MEM"
      /\ fd \in FreeOf(fds) <=> fds[fd].kind = "FREE"
  BY <1>1, TableIs
<1>4. fds[fd].kind = "FILE" =>
        /\ fds[fd].fh \in 1 .. MAX_OPEN /\ fs.opens[fds[fd].fh].ent # 0
        /\ HandsOf(fs, fds)[fd] = Hand(fs, fds[fd].fh)
  BY <1>1, <1>3, TableIs, HandsAre
<1> QED BY <1>1, <1>2, <1>3, <1>4 DEF IsFile, Ok

(* A move of one handle, the directory as it was or rewritten.             *)
LEMMA MoveKept ==
  ASSUME IInv, NEW fd \in FilesOf(fds), NEW g2, NEW p, FilesSound(g2),
         Moves(fs, g2, fds[fd].fh, p), fs' = g2, fds' = fds, over' = over
  PROVE  /\ IInv' /\ ImageOf(fds)' = ImageOf(fds)
         /\ HandsOf(fs, fds)' = MovedTo(HandsOf(fs, fds), fd, p)
<1>1. OpensSound(fs) /\ FdsSound(fs, fds) /\ over \in BOOLEAN
  BY DEF IInv, AllSound
<1>2. /\ OpensSound(g2) /\ FdsSound(g2, fds)
      /\ HandsOf(g2, fds) = MovedTo(HandsOf(fs, fds), fd, p)
  <2>1. PICK g, table : g = fs /\ table = fds
    OBVIOUS
  <2>2. OpensSound(g) /\ FdsSound(g, table) /\ fd \in FilesOf(table) /\ Moves(g, g2, table[fd].fh, p)
    BY <1>1, <2>1
  <2>3. /\ OpensSound(g2) /\ FdsSound(g2, table)
        /\ HandsOf(g2, table) = MovedTo(HandsOf(g, table), fd, p)
    BY <2>2, MovedHands
  <2> QED BY <2>1, <2>3
<1> QED BY <1>1, <1>2 DEF IInv, AllSound

(* fd_read.                                                                *)
LEMMA ReadKept ==
  ASSUME IInv, NEW fd \in 1 .. NFiles, NEW want \in Nat, Read(fd, want)
  PROVE  IInv' /\ Dir!Read(fd, want) /\ ret'.op = "read"
<1>1. /\ AllSound(fs, fds) /\ FdsSound(fs, fds) /\ FilesSound(fs) /\ OpensSound(fs)
      /\ Dir!Free = FreeOf(fds)
      /\ DOMAIN HandsOf(fs, fds) = FilesOf(fds) /\ DOMAIN ImageOf(fds) = ImagesOf(fds)
      /\ fds[fd].kind \in {"FREE", "FILE", "MEM"}
      /\ fd \in FilesOf(fds) <=> fds[fd].kind = "FILE"
      /\ fd \in ImagesOf(fds) <=> fds[fd].kind = "MEM"
      /\ fd \in FreeOf(fds) <=> fds[fd].kind = "FREE"
      /\ IsFile(fd) <=> fds[fd].kind = "FILE"
      /\ Ok(fd) <=> fds[fd].kind # "FREE"
      /\ fds[fd].kind = "FILE" =>
           /\ fds[fd].fh \in 1 .. MAX_OPEN /\ fs.opens[fds[fd].fh].ent # 0
           /\ HandsOf(fs, fds)[fd] = Hand(fs, fds[fd].fh)
  BY HandIs
<1>2. over' = over
  BY DEF Read
<1>3. CASE fds[fd].kind = "FREE"
  <2>1. Said("read", BADHAND) /\ fs' = fs /\ fds' = fds
    BY <1>1, <1>3 DEF Read
  <2>2. IInv' /\ Dir!Refuse("read", BADHAND) /\ ret'.op = "read"
    BY <1>2, <2>1, RefuseIs
  <2> QED BY <1>1, <1>3, <2>2 DEF Dir!Read, BADHAND
<1>4. CASE fds[fd].kind = "MEM"
  <2> DEFINE left == ImageLen - fds[fd].pos
             n == IF want < left THEN want ELSE left
             new == [fds[fd] EXCEPT !.pos = @ + n]
             t2 == [fds EXCEPT ![fd] = new]
             M == ImageOf(fds)
  <2>1. /\ fds' = [fds EXCEPT ![fd].pos = @ + n] /\ fs' = fs
        /\ ret' = Answer("read", n, <<>>)
    BY <1>1, <1>4 DEF Read, Said
  <2>2. fds' = t2
    BY <2>1
  <2>3. fds[fd] \in Fds
    BY <1>1 DEF FdsSound
  <2>4. fds[fd].pos \in 0 .. 1 /\ ImageLen = 1
    BY <2>3 DEF Fds, ImageLen
  <2>5. n \in 0 .. 1 /\ fds[fd].pos + n \in 0 .. ImageLen
    BY <2>4
  <2>6. M[fd] = fds[fd].pos /\ M = [x \in ImagesOf(fds) |-> M[x]] /\ fd \in ImagesOf(fds)
    BY <1>1, <1>4, HandsAre
  <2>7. ret' = Answer("read", IF want < ImageLen - M[fd] THEN want ELSE ImageLen - M[fd], <<>>)
    BY <2>1, <2>6
  <2>8. (IF want < ImageLen - M[fd] THEN want ELSE ImageLen - M[fd]) = n
    BY <2>6
  <2> HIDE DEF n, M
  <2>9. new \in Fds /\ new.kind = "MEM" /\ new.pos = M[fd] + n
    BY <1>4, <2>3, <2>5, <2>6 DEF Fds
  <2> HIDE DEF new
  <2>10. /\ FdsSound(fs, t2) /\ HandsOf(fs, t2) = HandsOf(fs, fds)
         /\ ImageOf(t2) = Dir!With(M, fd, M[fd] + n)
    BY <1>1, <1>4, <2>9, ImagePut DEF M
  <2>11. Dir!With(M, fd, M[fd] + n) = [M EXCEPT ![fd] = M[fd] + n]
    BY <2>6, WithIs
  <2> HIDE DEF t2
  <2>12. IInv'
    BY <1>1, <1>2, <2>1, <2>2, <2>10 DEF IInv, AllSound
  <2>13. /\ DirOf(fs)' = DirOf(fs) /\ HandsOf(fs, fds)' = HandsOf(fs, fds)
         /\ ImageOf(fds)' = [M EXCEPT ![fd] = M[fd] + n]
    BY <2>1, <2>2, <2>10, <2>11
  <2>14. Dir!Read(fd, want)
    <3>1. ret' = Dir!Answer("read", n, <<>>)
      BY <2>7, <2>8, AnswersAre
    <3>2. (IF want < Dir!ImageLen - M[fd] THEN want ELSE Dir!ImageLen - M[fd]) = n
      BY <2>8, AnswersAre
    <3>3. fd \in DOMAIN ImageOf(fds) /\ ImageOf(fds)[fd] = M[fd] /\ ImageOf(fds) = M
      BY <1>1, <1>4 DEF M
    <3> QED BY <1>2, <2>13, <3>1, <3>2, <3>3 DEF Dir!Read
  <2> QED BY <2>1, <2>12, <2>14, AnswersAre
<1>5. CASE fds[fd].kind = "FILE"
  <2> DEFINE h == fds[fd].fh
             got == fs_read(fs, h, want)
             H == HandsOf(fs, fds)
             s == DirOf(fs)[H[fd].name].bytes
             p == H[fd].pos
             data == DataAt(s, p, want)
  <2>1. fs' = got.fs /\ ret' = Answer("read", got.r, got.data) /\ fds' = fds
    BY <1>1, <1>5 DEF Read
  <2>2. /\ Hand(fs, h).access = "WRITE" => got.fs = fs /\ got.r = ACCESS /\ got.data = <<>>
        /\ Hand(fs, h).access # "WRITE" =>
             /\ got.r = Len(data) /\ got.data = data
             /\ FilesSound(got.fs) /\ Moves(fs, got.fs, h, p + Len(data))
             /\ DirOf(got.fs) = DirOf(fs)
    <3>1. H[fd] = Hand(fs, h) /\ h \in 1 .. MAX_OPEN /\ fs.opens[h].ent # 0
      BY <1>1, <1>5
    <3> HIDE DEF H, h, data, got, s, p
    <3>2. DirOf(fs)[Hand(fs, h).name].bytes = s /\ Hand(fs, h).pos = p
      BY <3>1 DEF s, p
    <3>3. LET S == DirOf(fs)[Hand(fs, h).name].bytes
              P == Hand(fs, h).pos
          IN  /\ Hand(fs, h).access = "WRITE" => got.fs = fs /\ got.r = ACCESS /\ got.data = <<>>
              /\ Hand(fs, h).access # "WRITE" =>
                   /\ got.r = Len(DataAt(S, P, want)) /\ got.data = DataAt(S, P, want)
                   /\ FilesSound(got.fs) /\ Moves(fs, got.fs, h, P + Len(DataAt(S, P, want)))
                   /\ DirOf(got.fs) = DirOf(fs)
      BY <1>1, <3>1, ReadIs DEF got
    <3> QED BY <3>2, <3>3 DEF data
  <2>3. H[fd] = Hand(fs, h) /\ fd \in FilesOf(fds) /\ fd \in DOMAIN H
    BY <1>1, <1>5
  <2> HIDE DEF got
  <2>4. CASE H[fd].access = "WRITE"
    <3>1. Said("read", ACCESS) /\ fs' = fs /\ fds' = fds
      BY <2>1, <2>2, <2>3, <2>4 DEF Said
    <3>2. IInv' /\ Dir!Refuse("read", ACCESS) /\ ret'.op = "read"
      BY <1>2, <3>1, RefuseIs
    <3> QED BY <2>3, <2>4, <3>2 DEF Dir!Read, ACCESS
  <2>5. CASE H[fd].access # "WRITE"
    <3> HIDE DEF data, p, s
    <3>1. /\ got.r = Len(data) /\ got.data = data
          /\ FilesSound(got.fs) /\ Moves(fs, got.fs, h, p + Len(data))
          /\ DirOf(got.fs) = DirOf(fs)
      BY <2>2, <2>3, <2>5
    <3>2. /\ IInv' /\ ImageOf(fds)' = ImageOf(fds)
          /\ HandsOf(fs, fds)' = MovedTo(H, fd, p + Len(data))
      BY <1>2, <2>1, <2>3, <3>1, MoveKept
    <3>3. HandsOf(fs, fds)' = [H EXCEPT ![fd].pos = @ + Len(data)]
      BY <3>2 DEF p, MovedTo
    <3>4. DirOf(fs)' = DirOf(fs)
      BY <2>1, <3>1
    <3>5. ret' = Dir!Answer("read", Len(data), data) /\ ret'.op = "read"
      BY <2>1, <3>1, AnswersAre
    <3>6. Dir!Read(fd, want)
      BY <1>2, <2>3, <2>5, <3>2, <3>3, <3>4, <3>5 DEF Dir!Read, data, s, p, DataAt
    <3> QED BY <3>2, <3>5, <3>6
  <2> QED BY <2>4, <2>5
<1> QED BY <1>1, <1>3, <1>4, <1>5

(* dos_shutdown, or the end for want of memory.                            *)
LEMMA EndsKept ==
  ASSUME IInv, over' = TRUE, fs' = fs_close_all(fs),
         fds' = [fd \in 1 .. NFiles |-> NoFd], Said("end", 0)
  PROVE  IInv' /\ Dir!Ends /\ ret'.op = "end"
<1> DEFINE g2 == fs_close_all(fs)
           t2 == [fd \in 1 .. NFiles |-> NoFd]
<1>1. FilesSound(fs)
  BY DEF IInv, AllSound
<1>2. /\ AllSound(g2, t2) /\ DirOf(g2) = DirOf(fs)
      /\ HandsOf(g2, t2) = << >> /\ ImageOf(t2) = << >>
  BY <1>1, AllClosed
<1>3. fs' = g2 /\ fds' = t2
  OBVIOUS
<1> HIDE DEF g2, t2
<1>4. IInv'
  BY <1>2, <1>3 DEF IInv
<1>5. DirOf(fs)' = DirOf(fs) /\ HandsOf(fs, fds)' = << >> /\ ImageOf(fds)' = << >>
  BY <1>2, <1>3
<1>6. ret' = Dir!Answer("end", 0, <<>>) /\ ret'.op = "end"
  BY AnswersAre DEF Said
<1> QED BY <1>4, <1>5, <1>6 DEF Dir!Ends

(* A write, which may be the end of the run.                               *)
LEMMA WriteKept ==
  ASSUME IInv, NEW fd \in 1 .. NFiles, NEW d \in Seq(Octets), Write(fd, d)
  PROVE  /\ IInv'
         /\ (Dir!Write(fd, d) /\ ret'.op = "write") \/ (Dir!Ends /\ ret'.op = "end")
<1>1. /\ AllSound(fs, fds) /\ FdsSound(fs, fds) /\ FilesSound(fs) /\ OpensSound(fs)
      /\ DOMAIN HandsOf(fs, fds) = FilesOf(fds)
      /\ fd \in FilesOf(fds) <=> fds[fd].kind = "FILE"
      /\ IsFile(fd) <=> fds[fd].kind = "FILE"
      /\ fds[fd].kind = "FILE" =>
           /\ fds[fd].fh \in 1 .. MAX_OPEN /\ fs.opens[fds[fd].fh].ent # 0
           /\ HandsOf(fs, fds)[fd] = Hand(fs, fds[fd].fh)
  BY HandIs
<1>2. CASE ~IsFile(fd)
  <2>1. Said("write", BADHAND) /\ fs' = fs /\ fds' = fds /\ over' = over
    BY <1>2 DEF Write
  <2>2. IInv' /\ Dir!Refuse("write", BADHAND) /\ ret'.op = "write"
    BY <2>1, RefuseIs
  <2> QED BY <1>1, <1>2, <2>2 DEF Dir!Write, BADHAND
<1>3. CASE IsFile(fd)
  <2> DEFINE h == fds[fd].fh
             put == fs_write(fs, h, d)
             H == HandsOf(fs, fds)
             n == H[fd].name
             p == H[fd].pos
  <2>1. CASE put.r = GIVENUP
    <3>1. GiveUp
      BY <1>3, <2>1 DEF Write
    <3> QED BY <3>1, EndsKept DEF GiveUp
  <2>2. CASE put.r # GIVENUP
    <3>1. fs' = put.fs /\ Said("write", put.r) /\ fds' = fds /\ over' = over
      BY <1>3, <2>2 DEF Write
    <3>2. H[fd] = Hand(fs, h) /\ fd \in FilesOf(fds) /\ fd \in DOMAIN H
          /\ h \in 1 .. MAX_OPEN /\ fs.opens[h].ent # 0
      BY <1>1, <1>3
    <3>3. /\ Hand(fs, h).access = "READ" => put = Answered(fs, ACCESS)
          /\ Hand(fs, h).access # "READ" =>
               /\ put.r = Len(d) /\ FilesSound(put.fs)
               /\ Moves(fs, put.fs, h, Hand(fs, h).pos + Len(d))
               /\ d = <<>> => DirOf(put.fs) = DirOf(fs)
               /\ d # <<>> => DirOf(put.fs) =
                    Overwritten(DirOf(fs), Hand(fs, h).name, Hand(fs, h).pos, d)
      BY <1>1, <2>2, <3>2, WriteDoes
    <3> HIDE DEF put
    <3>4. CASE H[fd].access = "READ"
      <4>1. Said("write", ACCESS) /\ fs' = fs
        BY <3>1, <3>2, <3>3, <3>4 DEF Answered
      <4>2. IInv' /\ Dir!Refuse("write", ACCESS) /\ ret'.op = "write"
        BY <3>1, <4>1, RefuseIs
      <4> QED BY <3>2, <3>4, <4>2 DEF Dir!Write, ACCESS
    <3>5. CASE H[fd].access # "READ"
      <4>1. /\ put.r = Len(d) /\ FilesSound(put.fs) /\ Moves(fs, put.fs, h, p + Len(d))
            /\ DirOf(put.fs) = IF d = <<>> THEN DirOf(fs) ELSE Overwritten(DirOf(fs), n, p, d)
        BY <3>2, <3>3, <3>5
      <4>2. /\ IInv' /\ ImageOf(fds)' = ImageOf(fds)
            /\ HandsOf(fs, fds)' = MovedTo(H, fd, p + Len(d))
        <5> HIDE DEF p, H
        <5> QED BY <3>1, <3>2, <4>1, MoveKept DEF H
      <4>3. HandsOf(fs, fds)' = [H EXCEPT ![fd].pos = @ + Len(d)]
        BY <4>2 DEF MovedTo
      <4>4. DirOf(fs)' = IF d = <<>> THEN DirOf(fs)
                         ELSE [DirOf(fs) EXCEPT ![n].bytes = Dir!Overlaid(@, p, d)]
        BY <3>1, <4>1 DEF Overwritten
      <4>5. ret' = Dir!Answer("write", Len(d), <<>>) /\ ret'.op = "write"
        BY <3>1, <4>1, AnswersAre DEF Said
      <4>6. Dir!Write(fd, d)
        BY <3>1, <3>2, <3>5, <4>2, <4>3, <4>4, <4>5 DEF Dir!Write
      <4> QED BY <4>2, <4>5, <4>6
    <3> QED BY <3>4, <3>5
  <2> QED BY <2>1, <2>2
<1> QED BY <1>2, <1>3

(* A seek.                                                                 *)
LEMMA SeekKept ==
  ASSUME IInv, NEW fd \in 1 .. NFiles, NEW off \in Int, NEW origin, Seek(fd, off, origin)
  PROVE  IInv' /\ Dir!Seek(fd, off, origin) /\ ret'.op = "seek"
<1>1. /\ AllSound(fs, fds) /\ FdsSound(fs, fds) /\ FilesSound(fs) /\ OpensSound(fs)
      /\ DOMAIN HandsOf(fs, fds) = FilesOf(fds)
      /\ fd \in FilesOf(fds) <=> fds[fd].kind = "FILE"
      /\ IsFile(fd) <=> fds[fd].kind = "FILE"
      /\ fds[fd].kind = "FILE" =>
           /\ fds[fd].fh \in 1 .. MAX_OPEN /\ fs.opens[fds[fd].fh].ent # 0
           /\ HandsOf(fs, fds)[fd] = Hand(fs, fds[fd].fh)
  BY HandIs
<1>2. fds' = fds /\ over' = over
  BY DEF Seek
<1>3. CASE ~IsFile(fd)
  <2>1. Said("seek", BADHAND) /\ fs' = fs
    BY <1>3 DEF Seek
  <2>2. IInv' /\ Dir!Refuse("seek", BADHAND) /\ ret'.op = "seek"
    BY <1>2, <2>1, RefuseIs
  <2> QED BY <1>1, <1>3, <2>2 DEF Dir!Seek, BADHAND
<1>4. CASE IsFile(fd)
  <2> DEFINE h == fds[fd].fh
             went == fs_seek(fs, h, off, origin)
             H == HandsOf(fs, fds)
             to == off + CASE origin = "CUR" -> H[fd].pos
                           [] origin = "END" -> Len(DirOf(fs)[H[fd].name].bytes)
                           [] OTHER -> 0
  <2>1. fs' = went.fs /\ Said("seek", went.r)
    BY <1>4 DEF Seek
  <2>2. H[fd] = Hand(fs, h) /\ fd \in FilesOf(fds) /\ fd \in DOMAIN H
        /\ h \in 1 .. MAX_OPEN /\ fs.opens[h].ent # 0
    BY <1>1, <1>4
  <2>3. /\ to < 0 => went = Answered(fs, ACCESS)
        /\ ~(to < 0) => /\ went.r = to /\ FilesSound(went.fs) /\ Moves(fs, went.fs, h, to)
                        /\ DirOf(went.fs) = DirOf(fs)
    BY <1>1, <2>2, SeekIs
  <2> HIDE DEF went, to
  <2>4. CASE to < 0
    <3>1. Said("seek", ACCESS) /\ fs' = fs
      BY <2>1, <2>3, <2>4 DEF Answered
    <3>2. IInv' /\ Dir!Refuse("seek", ACCESS) /\ ret'.op = "seek"
      BY <1>2, <3>1, RefuseIs
    <3> QED BY <2>2, <2>4, <3>2 DEF Dir!Seek, ACCESS, to
  <2>5. CASE ~(to < 0)
    <3>1. went.r = to /\ FilesSound(went.fs) /\ Moves(fs, went.fs, h, to) /\ DirOf(went.fs) = DirOf(fs)
      BY <2>3, <2>5
    <3>2. /\ IInv' /\ ImageOf(fds)' = ImageOf(fds)
          /\ HandsOf(fs, fds)' = MovedTo(H, fd, to)
      BY <1>2, <2>1, <2>2, <3>1, MoveKept
    <3>3. DirOf(fs)' = DirOf(fs)
      BY <2>1, <3>1
    <3>4. ret' = Dir!Answer("seek", to, <<>>) /\ ret'.op = "seek"
      BY <2>1, <3>1, AnswersAre DEF Said
    <3>5. Dir!Seek(fd, off, origin)
      BY <1>2, <2>2, <2>5, <3>2, <3>3, <3>4 DEF Dir!Seek, to, MovedTo
    <3> QED BY <3>2, <3>4, <3>5
  <2> QED BY <2>4, <2>5
<1> QED BY <1>3, <1>4

-----------------------------------------------------------------------------
(* Every step, and what it leaves sound. *)

(* A call by path that leaves every handle where it was.                   *)
LEMMA KeepsKept ==
  ASSUME IInv, NEW g2, FilesSound(g2), Keeps(fs, g2), fs' = g2, fds' = fds, over' = over
  PROVE  /\ IInv' /\ ImageOf(fds)' = ImageOf(fds) /\ HandsOf(fs, fds)' = HandsOf(fs, fds)
<1>1. OpensSound(fs) /\ FdsSound(fs, fds) /\ over \in BOOLEAN
  BY DEF IInv, AllSound
<1>2. OpensSound(g2) /\ FdsSound(g2, fds) /\ HandsOf(g2, fds) = HandsOf(fs, fds)
  <2>1. PICK g, table : g = fs /\ table = fds
    OBVIOUS
  <2>2. OpensSound(g) /\ FdsSound(g, table) /\ Keeps(g, g2)
    BY <1>1, <2>1
  <2>3. OpensSound(g2) /\ FdsSound(g2, table) /\ HandsOf(g2, table) = HandsOf(g, table)
    BY <2>2, KeepsHands
  <2> QED BY <2>1, <2>3
<1> QED BY <1>1, <1>2 DEF IInv, AllSound

(* A file removed.                                                         *)
LEMMA UnlinkKept ==
  ASSUME IInv, NEW path \in Names, Unlink(path)
  PROVE  IInv' /\ Dir!Unlink(path) /\ ret'.op = "unlink"
<1> DEFINE name == Resolved(fs, path)
           did == fs_unlink(fs, path)
           no == name \notin Taken(fs) \/ IsDir(fs, name)
<1>1. AllSound(fs, fds) /\ FilesSound(fs) /\ OpensSound(fs)
  BY DEF IInv, AllSound
<1>2. fs' = did.fs /\ Said("unlink", did.r) /\ fds' = fds /\ over' = over
  BY DEF Unlink, ByPath
<1>3. /\ Dir!Named(path) = name /\ DOMAIN DirOf(fs) = Taken(fs)
      /\ Dir!IsDir(name) <=> IsDir(fs, name)
  BY <1>1, BridgeIs
<1>4. \A h \in 1 .. MAX_OPEN : fs.opens[h].ent # 0 => fs.ents[fs.opens[h].ent].name # name
  BY DEF Unlink, Opened, IsOpen
<1>5. /\ no => did = Answered(fs, NOTFOUND)
      /\ ~no => /\ did.r = 0 /\ FilesSound(did.fs) /\ Keeps(fs, did.fs)
                /\ DirOf(did.fs) = Dir!Without(DirOf(fs), name)
  BY <1>1, <1>4, UnlinkIs
<1> HIDE DEF name, did
<1>6. CASE no
  <2>1. fs' = fs /\ Said("unlink", NOTFOUND)
    BY <1>2, <1>5, <1>6 DEF Answered
  <2>2. IInv' /\ Dir!Refuse("unlink", NOTFOUND) /\ ret'.op = "unlink"
    BY <1>2, <2>1, RefuseIs
  <2> QED BY <1>3, <1>6, <2>2 DEF Dir!Unlink, NOTFOUND
<1>7. CASE ~no
  <2>1. IInv' /\ ImageOf(fds)' = ImageOf(fds) /\ HandsOf(fs, fds)' = HandsOf(fs, fds)
    BY <1>2, <1>5, <1>7, KeepsKept
  <2>2. DirOf(fs)' = Dir!Without(DirOf(fs), name)
    BY <1>2, <1>5, <1>7
  <2>3. ret' = Dir!Answer("unlink", 0, <<>>) /\ ret'.op = "unlink"
    BY <1>2, <1>5, <1>7, AnswersAre DEF Said
  <2> QED BY <1>2, <1>3, <1>7, <2>1, <2>2, <2>3 DEF Dir!Unlink
<1> QED BY <1>6, <1>7

(* A directory made.                                                       *)
LEMMA MkdirKept ==
  ASSUME IInv, NEW path \in Names, Mkdir(path)
  PROVE  IInv' /\ Dir!Mkdir(path) /\ ret'.op = "mkdir"
<1> DEFINE name == Resolved(fs, path)
           did == fs_mkdir(fs, path)
           no == name = <<>> \/ name \in Taken(fs) \/ Cardinality(Taken(fs)) = MAX_ENTRIES
<1>1. AllSound(fs, fds) /\ FilesSound(fs) /\ OpensSound(fs)
  BY DEF IInv, AllSound
<1>2. fs' = did.fs /\ Said("mkdir", did.r) /\ fds' = fds /\ over' = over
  BY DEF Mkdir, ByPath
<1>3. /\ Dir!Named(path) = name /\ DOMAIN DirOf(fs) = Taken(fs)
      /\ Dir!Full <=> Cardinality(Taken(fs)) = MAX_ENTRIES
  BY <1>1, BridgeIs
<1>5. /\ no => did = Answered(fs, NOPATH)
      /\ ~no => /\ did.r = 0 /\ FilesSound(did.fs) /\ Keeps(fs, did.fs)
                /\ DirOf(did.fs) = Dir!With(DirOf(fs), name, Dir!Directory)
  BY <1>1, MkdirIs
<1> HIDE DEF name, did
<1>6. CASE no
  <2>1. fs' = fs /\ Said("mkdir", NOPATH)
    BY <1>2, <1>5, <1>6 DEF Answered
  <2>2. IInv' /\ Dir!Refuse("mkdir", NOPATH) /\ ret'.op = "mkdir"
    BY <1>2, <2>1, RefuseIs
  <2> QED BY <1>3, <1>6, <2>2 DEF Dir!Mkdir, NOPATH
<1>7. CASE ~no
  <2>1. IInv' /\ ImageOf(fds)' = ImageOf(fds) /\ HandsOf(fs, fds)' = HandsOf(fs, fds)
    BY <1>2, <1>5, <1>7, KeepsKept
  <2>2. DirOf(fs)' = Dir!With(DirOf(fs), name, Dir!Directory)
    BY <1>2, <1>5, <1>7
  <2>3. ret' = Dir!Answer("mkdir", 0, <<>>) /\ ret'.op = "mkdir"
    BY <1>2, <1>5, <1>7, AnswersAre DEF Said
  <2> QED BY <1>2, <1>3, <1>7, <2>1, <2>2, <2>3 DEF Dir!Mkdir
<1> QED BY <1>6, <1>7

(* A directory removed.                                                    *)
LEMMA RmdirKept ==
  ASSUME IInv, NEW path, Rmdir(path)
  PROVE  IInv' /\ Dir!Rmdir(path) /\ ret'.op = "rmdir"
<1> DEFINE did == fs_rmdir(fs, path)
           none == ~IsDir(fs, path)
           full == \E name \in Taken(fs) : Front(name) = path
<1>1. AllSound(fs, fds) /\ FilesSound(fs) /\ OpensSound(fs)
  BY DEF IInv, AllSound
<1>2. fs' = did.fs /\ Said("rmdir", did.r) /\ fds' = fds /\ over' = over
  BY DEF Rmdir, ByPath
<1>3. /\ DOMAIN DirOf(fs) = Taken(fs) /\ \A s : Dir!Front(s) = Front(s)
      /\ Dir!IsDir(path) <=> IsDir(fs, path)
  BY <1>1, BridgeIs
<1>4. full <=> \E name \in DOMAIN DirOf(fs) : Dir!Front(name) = path
  BY <1>3
<1>5. /\ none => did = Answered(fs, NOPATH)
      /\ ~none /\ full => did = Answered(fs, ACCESS)
      /\ ~none /\ ~full => /\ did.r = 0 /\ FilesSound(did.fs) /\ Keeps(fs, did.fs)
                           /\ DirOf(did.fs) = Dir!Without(DirOf(fs), path)
  BY <1>1, RmdirIs
<1> HIDE DEF did, full
<1>6. CASE none
  <2>1. fs' = fs /\ Said("rmdir", NOPATH)
    BY <1>2, <1>5, <1>6 DEF Answered
  <2>2. IInv' /\ Dir!Refuse("rmdir", NOPATH) /\ ret'.op = "rmdir"
    BY <1>2, <2>1, RefuseIs
  <2> QED BY <1>3, <1>6, <2>2 DEF Dir!Rmdir, NOPATH
<1>7. CASE ~none /\ full
  <2>1. fs' = fs /\ Said("rmdir", ACCESS)
    BY <1>2, <1>5, <1>7 DEF Answered
  <2>2. IInv' /\ Dir!Refuse("rmdir", ACCESS) /\ ret'.op = "rmdir"
    BY <1>2, <2>1, RefuseIs
  <2> QED BY <1>3, <1>4, <1>7, <2>2 DEF Dir!Rmdir, ACCESS
<1>8. CASE ~none /\ ~full
  <2>1. IInv' /\ ImageOf(fds)' = ImageOf(fds) /\ HandsOf(fs, fds)' = HandsOf(fs, fds)
    BY <1>2, <1>5, <1>8, KeepsKept
  <2>2. DirOf(fs)' = Dir!Without(DirOf(fs), path)
    BY <1>2, <1>5, <1>8
  <2>3. ret' = Dir!Answer("rmdir", 0, <<>>) /\ ret'.op = "rmdir"
    BY <1>2, <1>5, <1>8, AnswersAre DEF Said
  <2> QED BY <1>2, <1>3, <1>4, <1>8, <2>1, <2>2, <2>3 DEF Dir!Rmdir
<1> QED BY <1>6, <1>7, <1>8

(* A file renamed.                                                         *)
LEMMA RenameKept ==
  ASSUME IInv, NEW from \in Names, NEW to \in Names, Rename(from, to)
  PROVE  IInv' /\ Dir!Rename(from, to) /\ ret'.op = "rename"
<1> DEFINE a == Resolved(fs, from)
           b == Resolved(fs, to)
           did == fs_rename(fs, from, to)
           no == a \notin Taken(fs) \/ (a # b /\ b \in Taken(fs))
           H == HandsOf(fs, fds)
<1>1. AllSound(fs, fds) /\ FilesSound(fs) /\ OpensSound(fs) /\ FdsSound(fs, fds) /\ over \in BOOLEAN
  BY DEF IInv, AllSound
<1>2. fs' = did.fs /\ Said("rename", did.r) /\ fds' = fds /\ over' = over
  BY DEF Rename, ByPath
<1>3. Dir!Named(from) = a /\ Dir!Named(to) = b /\ DOMAIN DirOf(fs) = Taken(fs)
  BY <1>1, BridgeIs
<1>4. ~IsDir(fs, a) /\ b # <<>>
  BY DEF Rename
<1>5. /\ no => did = Answered(fs, ACCESS)
      /\ ~no => /\ did.r = 0 /\ FilesSound(did.fs) /\ KeepsBut(fs, did.fs, a, b)
                /\ DirOf(did.fs) = Dir!With(Dir!Without(DirOf(fs), a), b, DirOf(fs)[a])
  BY <1>1, <1>4, RenameIs
<1> HIDE DEF a, b, did
<1>6. CASE no
  <2>1. fs' = fs /\ Said("rename", ACCESS)
    BY <1>2, <1>5, <1>6 DEF Answered
  <2>2. IInv' /\ Dir!Refuse("rename", ACCESS) /\ ret'.op = "rename"
    BY <1>2, <2>1, RefuseIs
  <2> QED BY <1>3, <1>6, <2>2 DEF Dir!Rename, ACCESS
<1>7. CASE ~no
  <2>1. /\ OpensSound(did.fs) /\ FdsSound(did.fs, fds)
        /\ HandsOf(did.fs, fds) =
             [fd \in DOMAIN H |-> IF H[fd].name = a THEN [H[fd] EXCEPT !.name = b] ELSE H[fd]]
    <3>1. PICK g, table, g2 : g = fs /\ table = fds /\ g2 = did.fs
      OBVIOUS
    <3>2. OpensSound(g) /\ FdsSound(g, table) /\ KeepsBut(g, g2, a, b)
      BY <1>1, <1>5, <1>7, <3>1
    <3>3. /\ OpensSound(g2) /\ FdsSound(g2, table)
          /\ HandsOf(g2, table) =
               [fd \in DOMAIN HandsOf(g, table) |->
                  IF HandsOf(g, table)[fd].name = a
                  THEN [HandsOf(g, table)[fd] EXCEPT !.name = b] ELSE HandsOf(g, table)[fd]]
      BY <3>2, RenamedHands
    <3> QED BY <3>1, <3>3
  <2> HIDE DEF H
  <2>2. IInv'
    BY <1>1, <1>2, <1>5, <1>7, <2>1 DEF IInv, AllSound
  <2>3. /\ ImageOf(fds)' = ImageOf(fds)
        /\ DirOf(fs)' = Dir!With(Dir!Without(DirOf(fs), a), b, DirOf(fs)[a])
        /\ HandsOf(fs, fds)' =
             [fd \in DOMAIN H |-> IF H[fd].name = a THEN [H[fd] EXCEPT !.name = b] ELSE H[fd]]
    BY <1>2, <1>5, <1>7, <2>1
  <2>4. ret' = Dir!Answer("rename", 0, <<>>) /\ ret'.op = "rename"
    BY <1>2, <1>5, <1>7, AnswersAre DEF Said
  <2>5. Dir!Rename(from, to)
    BY <1>2, <1>3, <1>7, <2>3, <2>4 DEF Dir!Rename, H
  <2> QED BY <2>2, <2>4, <2>5
<1> QED BY <1>6, <1>7

(* Every call is a call of DirSpec, and leaves the files whole.            *)
LEMMA NextKept ==
  ASSUME IInv, Next
  PROVE  IInv' /\ Dir!Next
<1>1. ~over
  BY DEF Next
<1>2. /\ \A path \in Paths \cup DirPaths : path \in Names
      /\ \A d \in Strings : d \in Seq(Octets)
      /\ \A want \in Wants : want \in Nat
      /\ \A off \in Offs : off \in Int
      /\ \A access \in Accesses : access \in {"READ", "WRITE", "RDWR"}
  BY DosConstants DEF Names
<1>3. ASSUME NEW path \in Paths, NEW access \in Accesses,
             NEW disposition \in {"EXISTING", "CREATE", "CREATE_NEW"},
             Open(path, access, disposition)
      PROVE  IInv' /\ Dir!Next
  <2>1. path \in Names /\ access \in {"READ", "WRITE", "RDWR"}
    BY <1>2
  <2>2. IInv' /\ Dir!Open(path, access, disposition) /\ ret'.op = "open"
    BY <1>3, <2>1, OpenKept
  <2> QED BY <1>1, <2>1, <2>2 DEF Dir!Next
<1>4. ASSUME OpenImage PROVE IInv' /\ Dir!Next
  BY <1>1, <1>4, OpenImageKept DEF Dir!Next
<1>5. ASSUME NEW fd \in 1 .. NFiles, Close(fd) PROVE IInv' /\ Dir!Next
  BY <1>1, <1>5, CloseKept DEF Dir!Next
<1>6. ASSUME NEW fd \in 1 .. NFiles, NEW want \in Wants, Read(fd, want) PROVE IInv' /\ Dir!Next
  BY <1>1, <1>2, <1>6, ReadKept DEF Dir!Next
<1>7. ASSUME NEW fd \in 1 .. NFiles, NEW d \in Strings, Write(fd, d) PROVE IInv' /\ Dir!Next
  BY <1>1, <1>2, <1>7, WriteKept DEF Dir!Next
<1>8. ASSUME NEW fd \in 1 .. NFiles, NEW off \in Offs, NEW origin \in {"SET", "CUR", "END"},
             Seek(fd, off, origin)
      PROVE  IInv' /\ Dir!Next
  BY <1>1, <1>2, <1>8, SeekKept DEF Dir!Next
<1>9. ASSUME NEW path \in Paths, Unlink(path) PROVE IInv' /\ Dir!Next
  BY <1>1, <1>2, <1>9, UnlinkKept DEF Dir!Next
<1>10. ASSUME NEW path \in DirPaths, Mkdir(path) PROVE IInv' /\ Dir!Next
  BY <1>1, <1>2, <1>10, MkdirKept DEF Dir!Next
<1>11. ASSUME NEW path \in DirPaths, Rmdir(path) PROVE IInv' /\ Dir!Next
  BY <1>1, <1>11, RmdirKept DEF Dir!Next
<1>12. ASSUME NEW from \in Paths, NEW to \in Paths, Rename(from, to) PROVE IInv' /\ Dir!Next
  BY <1>1, <1>2, <1>12, RenameKept DEF Dir!Next
<1>13. ASSUME Shutdown PROVE IInv' /\ Dir!Next
  BY <1>1, <1>13, EndsKept DEF Shutdown, Dir!Next
<1> QED BY <1>3, <1>4, <1>5, <1>6, <1>7, <1>8, <1>9, <1>10, <1>11, <1>12, <1>13 DEF Next, Call

(* Every step, and every stutter.                                          *)
LEMMA StepKept ==
  ASSUME IInv, [Next]_vars
  PROVE  IInv' /\ [Dir!Next]_(Dir!specvars)
<1>1. CASE Next
  BY <1>1, NextKept
<1>2. CASE UNCHANGED vars
  <2>1. fs' = fs /\ fds' = fds /\ over' = over /\ ret' = ret
    BY <1>2 DEF vars
  <2>2. IInv'
    BY <2>1 DEF IInv
  <2>3. UNCHANGED Dir!specvars
    BY <2>1 DEF Dir!specvars
  <2> QED BY <2>2, <2>3
<1> QED BY <1>1, <1>2

(* What the invariant is for.                                              *)
LEMMA SoundIs ==
  ASSUME IInv
  PROVE  DosFilesSound
<1>1. /\ AllSound(fs, fds) /\ FilesSound(fs) /\ OpensSound(fs) /\ FdsSound(fs, fds)
      /\ fs \in Stores /\ NamesSound(fs) /\ BytesSound(fs) /\ Len(fs.ents) <= MAX_ENTRIES
  BY DEF IInv, AllSound, FilesSound, Typed
<1>2. /\ DOMAIN fs.ents = 1 .. Len(fs.ents) /\ Len(fs.ents) \in Nat
      /\ fs.mem \in Memories /\ fs.beg \in Nat /\ ArenaStart <= fs.beg /\ fs.beg <= ArenaEnd + 1
      /\ ArenaStart \in Nat \ {0} /\ ArenaEnd \in Nat
      /\ \A i \in DOMAIN fs.ents :
           /\ fs.ents[i].name \in Names
           /\ fs.ents[i].len \in Nat /\ fs.ents[i].cap \in Nat
           /\ fs.ents[i].borrowed \in Nat /\ fs.ents[i].data \in Nat
      /\ \A h \in 1 .. MAX_OPEN : fs.opens[h].ent \in Nat
  BY <1>1, StoreParts
<1>3. Used(fs) \subseteq DOMAIN fs.ents
  BY <1>1, UsedAre
<1>4. TypeOK
  <2>1. DOMAIN fs.mem = 1 .. ArenaEnd /\ fs.beg \in ArenaStart .. ArenaEnd + 1
    BY <1>1 DEF Stores
  <2>2. ASSUME NEW i \in DOMAIN fs.ents
        PROVE  LET e == fs.ents[i] IN
               e.len <= e.cap \/ (e.data = 0 /\ (e.borrowed # 0 \/ e.len = 0))
    BY <1>1 DEF BytesSound, SlotSound
  <2>3. ASSUME NEW h \in 1 .. MAX_OPEN PROVE fs.opens[h].ent \in 0 .. Len(fs.ents)
    <3>1. CASE fs.opens[h].ent = 0
      BY <1>2, <3>1
    <3>2. CASE fs.opens[h].ent # 0
      <4>1. fs.opens[h].ent \in 1 .. Len(fs.ents)
        BY <1>1, <1>2, <1>3, <3>2 DEF OpensSound
      <4> QED BY <1>2, <4>1
    <3> QED BY <3>1, <3>2
  <2>4. \A fd \in 1 .. NFiles : fds[fd].fh \in 0 .. MAX_OPEN /\ fds[fd].pos \in 0 .. ImageLen
    BY <1>1, TableIs
  <2> QED BY <1>1, <2>1, <2>2, <2>3, <2>4 DEF TypeOK
<1>5. InputsUntouched
  BY <1>1 DEF InputsUntouched, BytesSound
<1>6. BytesApart
  <2>1. ASSUME NEW i \in Extents PROVE fs.ents[i].data + fs.ents[i].cap <= fs.beg
    BY <1>1 DEF Extents, BytesSound, SlotSound
  <2>2. ASSUME NEW i \in Extents, NEW j \in Extents, i # j PROVE Span(i) \cap Span(j) = {}
    <3> DEFINE e == fs.ents[i]
               f == fs.ents[j]
    <3>1. e.data + e.cap <= f.data \/ f.data + f.cap <= e.data
      BY <1>1, <2>2 DEF Extents, BytesSound, SpansApart
    <3>2. e.data \in Nat /\ f.data \in Nat /\ e.cap \in Nat /\ f.cap \in Nat
      BY <1>2 DEF Extents
    <3>3. Span(i) = e.data .. e.data + e.cap - 1 /\ Span(j) = f.data .. f.data + f.cap - 1
      BY DEF Span
    <3> HIDE DEF e, f
    <3>4. \A a \in e.data .. e.data + e.cap - 1 : a \notin f.data .. f.data + f.cap - 1
      BY <3>1, <3>2
    <3> QED BY <3>3, <3>4
  <2> QED BY <2>1, <2>2 DEF BytesApart
<1>7. OneFdEach
  <2> SUFFICES ASSUME NEW h \in 1 .. MAX_OPEN
               PROVE  IsOpen(fs, h) <=> \E fd \in 1 .. NFiles :
                        /\ IsFile(fd) /\ fds[fd].fh = h
                        /\ \A other \in (1 .. NFiles) \ {fd} : IsFile(other) => fds[other].fh # h
    BY DEF OneFdEach
  <2>1. IsOpen(fs, h) <=> fs.opens[h].ent # 0
    BY DEF IsOpen
  <2>2. ASSUME fs.opens[h].ent # 0
        PROVE  \E fd \in 1 .. NFiles :
                 /\ IsFile(fd) /\ fds[fd].fh = h
                 /\ \A other \in (1 .. NFiles) \ {fd} : IsFile(other) => fds[other].fh # h
    <3>1. PICK fd \in 1 .. NFiles : fds[fd].kind = "FILE" /\ fds[fd].fh = h
      BY <1>1, <2>2 DEF FdsSound
    <3>2. \A other \in (1 .. NFiles) \ {fd} : fds[other].kind = "FILE" => fds[other].fh # h
      BY <1>1, <3>1 DEF FdsSound
    <3> QED BY <3>1, <3>2 DEF IsFile
  <2>3. ASSUME NEW fd \in 1 .. NFiles, IsFile(fd), fds[fd].fh = h
        PROVE  fs.opens[h].ent # 0
    BY <1>1, <2>3 DEF FdsSound, IsFile
  <2> QED BY <2>1, <2>2, <2>3
<1>8. UnmarkedIsGiven
  <2> SUFFICES ASSUME NEW i \in Used(fs), ~fs.ents[i].written, ~fs.ents[i].isdir
               PROVE  \E given \in Inputs : \E k \in DOMAIN given :
                        Contents(fs, i) = Bytes(CallerMem, given[k].at, given[k].len)
    BY DEF UnmarkedIsGiven
  <2> DEFINE e == fs.ents[i]
  <2>1. i \in DOMAIN fs.ents /\ e.name # <<>>
    BY <1>3 DEF Used
  <2>2. MarkSound(e) /\ SlotSound(e, fs.beg)
    BY <1>1, <2>1 DEF BytesSound
  <2>3. PICK given \in Inputs : \E k \in DOMAIN given :
           e.borrowed = given[k].at /\ e.len = given[k].len
    BY <2>1, <2>2 DEF MarkSound
  <2>4. PICK k \in DOMAIN given : e.borrowed = given[k].at /\ e.len = given[k].len
    BY <2>3
  <2>5. e.data = 0
    BY <2>1, <2>2 DEF MarkSound
  <2>6. given[k].at \in 1 .. ArenaStart /\ given[k].at + given[k].len <= ArenaStart
    <3>1. given \in Seq(InputsAt) /\ given[k].at + given[k].len <= ArenaStart
      BY DosConstants
    <3>2. given[k] \in InputsAt
      BY <3>1
    <3> QED BY <3>1, <3>2 DEF InputsAt
  <2>7. Contents(fs, i) = [n \in 1 .. e.len |-> fs.mem[e.borrowed + n - 1]]
    BY <2>5 DEF Contents, Bytes, Base
  <2>8. Bytes(CallerMem, given[k].at, given[k].len) =
          [n \in 1 .. e.len |-> CallerMem[e.borrowed + n - 1]]
    BY <2>4 DEF Bytes
  <2>9. ASSUME NEW n \in 1 .. e.len PROVE fs.mem[e.borrowed + n - 1] = CallerMem[e.borrowed + n - 1]
    <3>1. e.len \in Nat /\ e.borrowed \in Nat /\ e.borrowed >= 1 /\ e.borrowed + e.len <= ArenaStart
      BY <1>2, <2>1, <2>4, <2>6
    <3> HIDE DEF e
    <3>2. e.borrowed + n - 1 \in 1 .. ArenaStart - 1
      BY <1>2, <3>1
    <3> QED BY <1>1, <3>2 DEF BytesSound
  <2>10. Contents(fs, i) = Bytes(CallerMem, given[k].at, given[k].len)
    BY <2>7, <2>8, <2>9
  <2> QED BY <2>10
<1>9. EveryEntryNamed
  <2>1. ASSUME NEW i \in Used(fs) PROVE Resolved(fs, fs.ents[i].name) = fs.ents[i].name
    BY <1>1 DEF NamesSound, Standing, Resolved
  <2>2. \A i, j \in Used(fs) : fs.ents[i].name = fs.ents[j].name => i = j
    BY <1>1 DEF NamesSound
  <2> QED BY <2>1, <2>2 DEF EveryEntryNamed
<1> QED BY <1>4, <1>5, <1>6, <1>7, <1>8, <1>9 DEF DosFilesSound


-----------------------------------------------------------------------------
(* What the caller put in.                                                 *)

Held(input) == [isdir |-> FALSE, bytes |-> Bytes(CallerMem, input.at, input.len)]

GivenSlot(input) ==
  [name |-> <<Last(input.name)>>, isdir |-> FALSE, written |-> FALSE,
   borrowed |-> input.at, data |-> 0, len |-> input.len, cap |-> 0]

(* A file of the caller's may stand in a slot.                             *)
LEMMA InputIs ==
  ASSUME NEW given \in Inputs, NEW k \in DOMAIN given
  PROVE  LET input == given[k] IN
         /\ input.at \in Nat /\ input.at >= 1 /\ input.len \in Nat
         /\ input.at + input.len <= ArenaStart
         /\ GivenSlot(input) \in Slots /\ MarkSound(GivenSlot(input))
         /\ \A beg : SlotSound(GivenSlot(input), beg)
         /\ GivenSlot(input).name # <<>> /\ Len(GivenSlot(input).name) = 1
<1> DEFINE input == given[k]
           e == GivenSlot(input)
<1>1. given \in Seq(InputsAt) /\ input.at + input.len <= ArenaStart
  BY DosConstants
<1>2. input \in InputsAt
  BY <1>1
<1>3. input.at \in 1 .. ArenaStart /\ input.len \in 0 .. ArenaStart /\ input.name \in Seq(STRING)
      /\ input.name # <<>> /\ ArenaStart \in Nat
  BY <1>2, MemConstants DEF InputsAt
<1>4. Last(input.name) \in STRING
  BY <1>3 DEF Last
<1>5. <<Last(input.name)>> \in Names /\ Len(<<Last(input.name)>>) = 1 /\ <<Last(input.name)>> # <<>>
  BY <1>4 DEF Names
<1>6. /\ e.name = <<Last(input.name)>> /\ e.isdir = FALSE /\ e.written = FALSE
      /\ e.borrowed = input.at /\ e.data = 0 /\ e.len = input.len /\ e.cap = 0
  BY DEF GivenSlot
<1>7. e \in Slots
  BY <1>3, <1>5 DEF Slots, GivenSlot
<1>8. input.at # 0
  BY <1>3
<1>9. MarkSound(e)
  BY <1>6 DEF MarkSound
<1> HIDE DEF e
<1>10. \A beg : SlotSound(e, beg)
  BY <1>1, <1>5, <1>6, <1>8 DEF SlotSound
<1> QED BY <1>1, <1>3, <1>5, <1>6, <1>7, <1>9, <1>10 DEF e

\* The files in the slots so far are the caller's, in the root.
Fresh(g) ==
  /\ FilesSound(g) /\ \A i \in Used(g) : ~g.ents[i].isdir
  /\ g.opens = [h \in 1 .. MAX_OPEN |-> NotOpen]

(* One more of them put in a slot.                                         *)
LEMMA PutFresh ==
  ASSUME NEW g, Fresh(g), NEW given \in Inputs, NEW k \in DOMAIN given,
         NEW i, NEW g2, Put(g, g2, i, GivenSlot(given[k])),
         \A j \in Used(g) : j # i => g.ents[j].name # <<Last(given[k].name)>>,
         i \in Used(g) => g.ents[i].name = <<Last(given[k].name)>>
  PROVE  Fresh(g2) /\ DirOf(g2) = Dir!With(DirOf(g), <<Last(given[k].name)>>, Held(given[k]))
<1> DEFINE input == given[k]
           e == GivenSlot(input)
<1>1. /\ input.at \in Nat /\ input.at >= 1 /\ input.len \in Nat
      /\ input.at + input.len <= ArenaStart
      /\ e.name # <<>> /\ Len(e.name) = 1
  BY InputIs
<1>2. /\ e.name = <<Last(input.name)>> /\ e.isdir = FALSE
      /\ e.borrowed = input.at /\ e.data = 0 /\ e.len = input.len
  BY DEF GivenSlot
<1> HIDE DEF e
<1>3. Put(g, g2, i, e)
  BY DEF e
<1>4. Standing(g, e.name)
  BY <1>1 DEF Standing
<1>5. /\ e.name # <<>>
      /\ \A j \in Used(g) : j # i => g.ents[j].name # e.name
      /\ i \in Used(g) => e.name = g.ents[i].name /\ e.isdir = g.ents[i].isdir
  <2>1. i \in Used(g) => g.ents[i].isdir = FALSE
    <3>1. ASSUME i \in Used(g) PROVE g.ents[i] \in Slots
      BY <3>1, StoreParts, UsedAre DEF Fresh, FilesSound, Typed
    <3> QED BY <3>1 DEF Fresh, Slots
  <2> QED BY <1>1, <1>2, <2>1
<1>6. /\ FilesSound(g2) /\ i \in Used(g2) /\ Used(g2) = Used(g) \cup {i}
      /\ \A j \in Used(g) : g2.ents[j].name = g.ents[j].name /\ g2.ents[j].isdir = g.ents[j].isdir
      /\ DirOf(g2) = Dir!With(DirOf(g), e.name, Shown(g2, i))
  BY <1>3, <1>4, <1>5, PutNames DEF Fresh
<1>7. g2.ents[i] = e /\ g2.opens = g.opens
  BY <1>3 DEF Put
<1>8. Fresh(g2)
  BY <1>2, <1>6, <1>7 DEF Fresh
<1>9. Base(e) = input.at
  BY <1>2 DEF Base
<1>10. Contents(g2, i) = Bytes(CallerMem, input.at, input.len)
  <2>1. Contents(g2, i) = Bytes(g2.mem, input.at, input.len)
    BY <1>2, <1>7, <1>9 DEF Contents
  <2>2. \A a \in 1 .. ArenaStart - 1 : g2.mem[a] = CallerMem[a]
    BY <1>6 DEF FilesSound, BytesSound
  <2>3. ArenaStart \in Nat
    BY MemConstants
  <2>4. \A j \in 1 .. input.len : input.at + j - 1 \in 1 .. ArenaStart - 1
    BY <1>1, <2>3
  <2>5. \A j \in 1 .. input.len : g2.mem[input.at + j - 1] = CallerMem[input.at + j - 1]
    BY <2>2, <2>4
  <2> QED BY <2>1, <2>5 DEF Bytes
<1>11. Shown(g2, i) = Held(input)
  BY <1>2, <1>7, <1>10 DEF Shown, Held
<1> QED BY <1>2, <1>6, <1>8, <1>11


(* What memfs_add makes of a slot.                                         *)
LEMMA AddedSlot ==
  ASSUME NEW x \in Slots, NEW input, x.name = <<Last(input.name)>>, x.isdir = FALSE,
         input.at \in Nat, input.len \in Nat
  PROVE  [x EXCEPT !.borrowed = input.at, !.data = 0, !.len = input.len,
                   !.cap = 0, !.written = FALSE] = GivenSlot(input)
<1> DEFINE y == [x EXCEPT !.borrowed = input.at, !.data = 0, !.len = input.len,
                          !.cap = 0, !.written = FALSE]
           e == GivenSlot(input)
<1>1. /\ y \in Slots /\ y.name = x.name /\ y.isdir = x.isdir /\ y.written = FALSE
      /\ y.borrowed = input.at /\ y.data = 0 /\ y.len = input.len /\ y.cap = 0
  BY DEF Slots
<1>2. /\ e.name = x.name /\ e.isdir = x.isdir /\ e.written = FALSE
      /\ e.borrowed = input.at /\ e.data = 0 /\ e.len = input.len /\ e.cap = 0
  BY DEF GivenSlot
<1>3. x.name \in Names
  BY DEF Slots
<1>4. e \in Slots
  BY <1>3 DEF GivenSlot, Slots
<1> HIDE DEF y, e
<1>5. y = e
  BY <1>1, <1>2, <1>4 DEF Slots
<1> QED BY <1>5 DEF y, e

(* memfs_add: one more, or the last of its name.                           *)
LEMMA AddedIs ==
  ASSUME NEW g, Fresh(g), Len(g.ents) < MAX_ENTRIES, NEW given \in Inputs, NEW k \in DOMAIN given
  PROVE  LET g2 == Added(g, given[k]) IN
         /\ Fresh(g2) /\ Len(g2.ents) <= Len(g.ents) + 1
         /\ DirOf(g2) = Dir!With(DirOf(g), <<Last(given[k].name)>>, Held(given[k]))
<1> DEFINE input == given[k]
           name == <<Last(input.name)>>
           i    == Found(g, name)
           made == IF i # 0 THEN Answered(g, i) ELSE NewEnt(g, name, FALSE)
           e    == GivenSlot(input)
           g2   == Added(g, input)
<1>1. /\ FilesSound(g) /\ Typed(g) /\ NamesSound(g) /\ BytesSound(g) /\ g \in Stores
      /\ \A j \in Used(g) : ~g.ents[j].isdir
  BY DEF Fresh, FilesSound, Typed
<1>2. e \in Slots /\ MarkSound(e) /\ \A beg : SlotSound(e, beg)
  BY InputIs
<1>3. e.data = 0
  BY DEF GivenSlot
<1>4. \A j : Fits(g, j, e)
  BY <1>2, <1>3 DEF Fits
<1>5. /\ DOMAIN g.ents = 1 .. Len(g.ents) /\ Len(g.ents) \in Nat /\ Used(g) \subseteq DOMAIN g.ents
      /\ \A j \in DOMAIN g.ents : g.ents[j] \in Slots
  BY <1>1, StoreParts, UsedAre
<1>6. \A j \in Used(g) : j # i => g.ents[j].name # name
  <2>1. ASSUME NEW j \in Used(g), g.ents[j].name = name PROVE j = i
    BY <1>1, <2>1, FoundOnly
  <2> QED BY <2>1
<1>7. g2 = [made.fs EXCEPT !.ents[made.r] =
              [@ EXCEPT !.borrowed = input.at, !.data = 0, !.len = input.len,
                        !.cap = 0, !.written = FALSE]]
  BY DEF Added
<1>8. CASE i # 0
  <2>1. i \in Used(g) /\ g.ents[i].name = name
    BY <1>1, <1>8, FoundIs
  <2>2. i \in DOMAIN g.ents /\ g.ents[i] \in Slots /\ g.ents[i].isdir = FALSE
    <3>1. i \in DOMAIN g.ents /\ g.ents[i] \in Slots
      BY <1>5, <2>1
    <3> QED BY <1>1, <2>1, <3>1 DEF Slots
  <2>3. made.r = i /\ made.fs = g
    BY <1>8 DEF Answered
  <2>4. [g.ents[i] EXCEPT !.borrowed = input.at, !.data = 0, !.len = input.len,
                          !.cap = 0, !.written = FALSE] = e
    BY <2>1, <2>2, InputIs, AddedSlot
  <2>5. g2 = [g EXCEPT !.ents[i] =
                [@ EXCEPT !.borrowed = input.at, !.data = 0, !.len = input.len,
                          !.cap = 0, !.written = FALSE]]
    BY <1>7, <2>3
  <2> HIDE DEF i, made, g2, e
  <2>6. g2 = [g EXCEPT !.ents[i] = e]
    BY <2>4, <2>5
  <2>7. Put(g, g2, i, e)
    BY <1>1, <1>4, <2>2, <2>6, PutOver
  <2>8. Len(g2.ents) = Len(g.ents)
    BY <1>1, <1>2, <2>2, <2>6, SlotPut
  <2>9. Fresh(g2) /\ DirOf(g2) = Dir!With(DirOf(g), name, Held(input))
    <3>1. Put(g, g2, i, GivenSlot(given[k]))
      BY <2>7 DEF e
    <3>2. PICK j : j = i
      OBVIOUS
    <3>3. Put(g, g2, j, GivenSlot(given[k]))
      BY <3>1, <3>2
    <3>4. \A l \in Used(g) : l # j => g.ents[l].name # name
      BY <1>6, <3>2
    <3>5. j \in Used(g) => g.ents[j].name = name
      BY <2>1, <3>2
    <3> QED BY <3>3, <3>4, <3>5, PutFresh
  <2> QED BY <1>5, <2>8, <2>9 DEF g2
<1>9. CASE i = 0
  <2> DEFINE new == NewSlot(name, FALSE)
             m == made.r
  <2>1. made = NewEnt(g, name, FALSE)
    BY <1>9
  <2>2. SlotFor(g, made, new)
    BY <1>1, <2>1, NewEntIs
  <2>3. m # 0
    <3>1. Len(g.ents) # MAX_ENTRIES
      BY <1>5, MemConstants
    <3> QED BY <1>1, <2>2, <3>1, FullIs DEF SlotFor
  <2>4. name \in Names
    BY <1>2 DEF GivenSlot, Slots
  <2>5. new \in Slots /\ new.name = name /\ new.isdir = FALSE
    BY <2>4 DEF Blank, Slots, NewSlot
  <2>6. made.fs.ents[m] = new
    BY <1>1, <2>2, <2>3, <2>5, MadeHolds
  <2>7. [new EXCEPT !.borrowed = input.at, !.data = 0, !.len = input.len,
                    !.cap = 0, !.written = FALSE] = e
    BY <2>5, InputIs, AddedSlot
  <2> HIDE DEF i, made, g2, e, new
  <2>8. g2 = [made.fs EXCEPT !.ents[m] = e]
    BY <1>7, <2>6, <2>7
  <2>9. PutThere(g, m, g2, e)
    BY <1>1, <1>2, <2>2, <2>3, <2>5, <2>8, MadeSlot
  <2>10. Put(g, g2, m, e) /\ Len(g2.ents) <= Len(g.ents) + 1 /\ m \notin Used(g)
    <3>1. CASE m \in DOMAIN g.ents /\ m \notin Used(g) /\ g2 = [g EXCEPT !.ents[m] = e]
      <4>1. Put(g, g2, m, e)
        BY <1>1, <1>4, <3>1, PutOver
      <4>2. Len(g2.ents) = Len(g.ents)
        BY <1>1, <1>2, <3>1, SlotPut
      <4> QED BY <1>5, <3>1, <4>1, <4>2
    <3>2. CASE /\ m = Len(g.ents) + 1 /\ Len(g.ents) # MAX_ENTRIES /\ m \notin Used(g)
               /\ g2 = [g EXCEPT !.ents = Append(@, e)]
      <4>1. Put(g, g2, Len(g.ents) + 1, e)
        BY <1>1, <1>4, <3>2, PutAfter
      <4>2. g2.ents = Append(g.ents, e)
        BY <1>1, <3>2 DEF Stores
      <4>3. Len(g2.ents) = Len(g.ents) + 1
        BY <1>1, <1>2, <4>2, StoreParts
      <4> QED BY <1>5, <3>2, <4>1, <4>3
    <3> QED BY <2>9, <3>1, <3>2 DEF PutThere
  <2>11. Fresh(g2) /\ DirOf(g2) = Dir!With(DirOf(g), name, Held(input))
    <3>1. Put(g, g2, m, GivenSlot(given[k]))
      BY <2>10 DEF e
    <3>2. \A j \in Used(g) : j # m => g.ents[j].name # name
      <4>1. 0 \notin Used(g)
        BY <1>5
      <4> QED BY <1>6, <1>9, <4>1
    <3> QED BY <2>10, <3>1, <3>2, PutFresh
  <2> QED BY <2>10, <2>11 DEF g2
<1> QED BY <1>8, <1>9

(* The directory of one more file put in, by the last of each name.        *)
LastOfName(given, n, m) ==
  \A later \in m + 1 .. n : <<Last(given[later].name)>> # <<Last(given[m].name)>>

(* Some file is the last of its name.                                      *)
LEMMA LastExists ==
  ASSUME NEW given, NEW n \in Nat, NEW k \in 1 .. n
  PROVE  \E m \in 1 .. n : /\ <<Last(given[m].name)>> = <<Last(given[k].name)>>
                           /\ LastOfName(given, n, m)
<1> DEFINE nm(j) == <<Last(given[j].name)>>
           S == {d \in 0 .. n - 1 : nm(n - d) = nm(k)}
<1>1. n - k \in S
  <2>1. n - (n - k) = k /\ n - k \in 0 .. n - 1
    OBVIOUS
  <2> QED BY <2>1
<1>2. S \in SUBSET Nat
  OBVIOUS
<1>3. Least(S) \in S /\ \A y \in S : Least(S) <= y
  BY <1>1, <1>2, LeastIs
<1>4. PICK d \in 0 .. n - 1 : d \in S /\ \A y \in S : d <= y
  BY <1>3
<1> DEFINE m == n - d
<1>5. m \in 1 .. n /\ nm(m) = nm(k)
  BY <1>4
<1>6. ASSUME NEW later \in m + 1 .. n PROVE nm(later) # nm(k)
  <2>1. n - later \in 0 .. n - 1 /\ n - (n - later) = later /\ ~(d <= n - later)
    BY <1>4
  <2>2. n - later \notin S
    BY <1>4, <2>1
  <2> QED BY <2>1, <2>2
<1> QED BY <1>5, <1>6 DEF LastOfName

(* And is the one shown under it.                                          *)
LEMMA GivenAt ==
  ASSUME NEW given, NEW n \in Nat, NEW m \in 1 .. n, LastOfName(given, n, m)
  PROVE  /\ <<Last(given[m].name)>> \in DOMAIN GivenDir(given, n)
         /\ GivenDir(given, n)[<<Last(given[m].name)>>] = Held(given[m])
<1> DEFINE name == <<Last(given[m].name)>>
           P(j) == /\ <<Last(given[j].name)>> = name
                   /\ \A later \in j + 1 .. n : <<Last(given[later].name)>> # name
           c == CHOOSE j \in 1 .. n : P(j)
<1>1. P(m)
  BY DEF LastOfName
<1>2. c \in 1 .. n /\ P(c)
  BY <1>1
<1>3. ASSUME NEW j \in 1 .. n, P(j) PROVE j = m
  <2>1. ~(j \in m + 1 .. n)
    BY <1>1, <1>3
  <2>2. ~(m \in j + 1 .. n)
    BY <1>1, <1>3
  <2> QED BY <2>1, <2>2
<1>4. c = m
  BY <1>2, <1>3
<1> DEFINE N == {<<Last(given[k].name)>> : k \in 1 .. n}
<1>5. name \in N
  OBVIOUS
<1>6. DOMAIN GivenDir(given, n) = N
  BY DEF GivenDir
<1>7. GivenDir(given, n)[name] =
        [isdir |-> FALSE, bytes |-> Bytes(CallerMem, given[c].at, given[c].len)]
  BY <1>5 DEF GivenDir
<1> QED BY <1>4, <1>5, <1>6, <1>7 DEF Held

(* One file more.                                                          *)
LEMMA GivenMore ==
  ASSUME NEW given, NEW n \in Nat
  PROVE  GivenDir(given, n + 1) =
           Dir!With(GivenDir(given, n), <<Last(given[n + 1].name)>>, Held(given[n + 1]))
<1> DEFINE nm(j) == <<Last(given[j].name)>>
           N(k) == {<<Last(given[j].name)>> : j \in 1 .. k}
           D == GivenDir(given, n)
           D1 == GivenDir(given, n + 1)
           W == Dir!With(D, nm(n + 1), Held(given[n + 1]))
<1>1. DOMAIN D = N(n) /\ DOMAIN D1 = N(n + 1) /\ D1 = [z \in N(n + 1) |-> D1[z]]
  BY DEF GivenDir
<1>2. N(n + 1) = N(n) \cup {nm(n + 1)}
  <2>1. \A j : j \in 1 .. n + 1 <=> j \in 1 .. n \/ j = n + 1
    OBVIOUS
  <2> QED BY <2>1
<1>3. W = [z \in N(n + 1) |-> IF z = nm(n + 1) THEN Held(given[n + 1]) ELSE D[z]]
  BY <1>1, <1>2 DEF Dir!With
<1>4. ASSUME NEW z \in N(n + 1)
      PROVE  D1[z] = IF z = nm(n + 1) THEN Held(given[n + 1]) ELSE D[z]
  <2>1. PICK k \in 1 .. n + 1 : z = nm(k)
    OBVIOUS
  <2>2. PICK m \in 1 .. n + 1 : nm(m) = nm(k) /\ LastOfName(given, n + 1, m)
    <3>1. n + 1 \in Nat
      OBVIOUS
    <3> HIDE DEF nm
    <3>2. \E m \in 1 .. n + 1 : /\ <<Last(given[m].name)>> = <<Last(given[k].name)>>
                                 /\ LastOfName(given, n + 1, m)
      BY <3>1, LastExists
    <3> QED BY <3>2 DEF nm
  <2>3. D1[nm(m)] = Held(given[m])
    BY <2>2, GivenAt
  <2>4. CASE m = n + 1
    BY <2>1, <2>2, <2>3, <2>4
  <2>5. CASE m # n + 1
    <3>1. m \in 1 .. n /\ n + 1 \in m + 1 .. n + 1
      BY <2>5
    <3>2. nm(n + 1) # nm(m)
      BY <2>2, <3>1 DEF LastOfName
    <3>3. LastOfName(given, n, m)
      BY <2>2, <3>1 DEF LastOfName
    <3>4. D[nm(m)] = Held(given[m])
      BY <3>1, <3>3, GivenAt
    <3> QED BY <2>1, <2>2, <2>3, <3>2, <3>4
  <2> QED BY <2>4, <2>5
<1> HIDE DEF D, D1, W
<1> QED BY <1>1, <1>3, <1>4 DEF D, D1, W

-----------------------------------------------------------------------------
(* The caller's files put in one after another, and the whole.             *)


\* What PutIn takes the last of.
PutsOf(given, f) ==
  f = [k \in 0 .. Len(given) |-> IF k = 0 THEN Reset(Memory) ELSE Added(f[k - 1], given[k])]

(* The files put in one after another are a function.                      *)
LEMMA PutsExist ==
  ASSUME NEW given, Len(given) \in Nat
  PROVE  \E f : PutsOf(given, f)
<1> DEFINE P(n) == \E f : f = [k \in 0 .. n |-> IF k = 0 THEN Reset(Memory)
                                                ELSE Added(f[k - 1], given[k])]
           Bad == {n \in Nat : ~P(n)}
<1>1. P(0)
  <2> DEFINE f == [k \in 0 .. 0 |-> Reset(Memory)]
  <2>1. \A k \in 0 .. 0 : f[k] = IF k = 0 THEN Reset(Memory) ELSE Added(f[k - 1], given[k])
    OBVIOUS
  <2>2. f = [k \in 0 .. 0 |-> IF k = 0 THEN Reset(Memory) ELSE Added(f[k - 1], given[k])]
    BY <2>1
  <2> HIDE DEF f
  <2> QED BY <2>2
<1>2. ASSUME NEW n \in Nat, P(n)
      PROVE  P(n + 1)
  <2>1. PICK f : f = [k \in 0 .. n |-> IF k = 0 THEN Reset(Memory) ELSE Added(f[k - 1], given[k])]
    BY <1>2
  <2> DEFINE g == [k \in 0 .. n + 1 |-> IF k <= n THEN f[k] ELSE Added(f[n], given[n + 1])]
  <2>2. \A k \in 0 .. n : f[k] = IF k = 0 THEN Reset(Memory) ELSE Added(f[k - 1], given[k])
    BY <2>1
  <2>3. \A k \in 0 .. n + 1 : g[k] = IF k = 0 THEN Reset(Memory) ELSE Added(g[k - 1], given[k])
    <3> SUFFICES ASSUME NEW k \in 0 .. n + 1
                 PROVE  g[k] = IF k = 0 THEN Reset(Memory) ELSE Added(g[k - 1], given[k])
      OBVIOUS
    <3>1. CASE k = 0
      BY <2>2, <3>1
    <3>2. CASE k # 0 /\ k <= n
      <4>1. k \in 0 .. n /\ k - 1 \in 0 .. n /\ k - 1 \in 0 .. n + 1
        BY <3>2
      <4>2. g[k] = f[k] /\ g[k - 1] = f[k - 1]
        BY <4>1
      <4> QED BY <2>2, <3>2, <4>1, <4>2
    <3>3. CASE k # 0 /\ ~(k <= n)
      <4>1. k - 1 = n /\ k - 1 \in 0 .. n + 1 /\ k = n + 1
        BY <3>3
      <4>2. g[k] = Added(f[n], given[n + 1]) /\ g[k - 1] = f[n]
        BY <3>3, <4>1
      <4> QED BY <3>3, <4>1, <4>2
    <3> QED BY <3>1, <3>2, <3>3
  <2>4. g = [k \in 0 .. n + 1 |-> IF k = 0 THEN Reset(Memory) ELSE Added(g[k - 1], given[k])]
    BY <2>3
  <2> HIDE DEF g
  <2> QED BY <2>4
<1> HIDE DEF P
<1>3. CASE Bad # {}
  <2>1. Least(Bad) \in Bad /\ \A y \in Bad : Least(Bad) <= y
    BY <1>3, LeastIs
  <2>2. PICK m \in Nat : m = Least(Bad) /\ ~P(m)
    BY <2>1
  <2>3. m # 0 /\ m - 1 \in Nat /\ ~(m <= m - 1)
    BY <1>1, <2>2
  <2>4. m - 1 \notin Bad
    BY <2>1, <2>2, <2>3
  <2>5. P(m - 1)
    BY <2>3, <2>4
  <2>6. P((m - 1) + 1)
    BY <1>2, <2>3, <2>5
  <2>7. (m - 1) + 1 = m
    BY <2>2
  <2> QED BY <2>2, <2>6, <2>7
<1>4. CASE Bad = {}
  <2>1. P(Len(given))
    BY <1>4
  <2> QED BY <2>1 DEF P, PutsOf
<1> QED BY <1>3, <1>4

(* Before any is put in.                                                   *)
LEMMA ResetIs ==
  LET g == Reset(Memory) IN Fresh(g) /\ Len(g.ents) = 0 /\ Taken(g) = {}
<1> DEFINE o == [h \in 1 .. MAX_OPEN |-> NotOpen]
           g == Reset(Memory)
<1>1. /\ ArenaStart \in Nat \ {0} /\ ArenaEnd \in Nat /\ ArenaStart <= ArenaEnd /\ MAX_ENTRIES \in Nat
      /\ MAX_OPEN \in Nat
  BY MemConstants
<1>2. Memory \in [1 .. ArenaEnd -> Octets]
  <2>1. \A a \in 1 .. ArenaEnd : a < ArenaStart => a \in 1 .. ArenaStart - 1
    BY <1>1
  <2>2. \A a \in 1 .. ArenaEnd : (IF a < ArenaStart THEN CallerMem[a] ELSE 0) \in Octets
    <3>1. \A a \in 1 .. ArenaStart - 1 : CallerMem[a] \in Octets
      BY DosConstants
    <3> QED BY <2>1, <3>1 DEF Octets
  <2> QED BY <2>2 DEF Memory
<1>3. \A a \in 1 .. ArenaStart - 1 : Memory[a] = CallerMem[a]
  <2>1. \A a \in 1 .. ArenaStart - 1 : a \in 1 .. ArenaEnd /\ a < ArenaStart
    BY <1>1
  <2> QED BY <2>1 DEF Memory
<1>4. o \in [1 .. MAX_OPEN -> Openings]
  BY DEF NotOpen, Openings
<1>5. g.ents = <<>> /\ g.opens = o /\ g.mem = Memory /\ g.beg = ArenaStart
  BY DEF Reset
<1>6. g \in Stores
  <2>1. ArenaStart \in ArenaStart .. ArenaEnd + 1
    BY <1>1
  <2> HIDE DEF o
  <2>2. Reset(Memory) = [ents |-> <<>>, opens |-> o, mem |-> Memory, beg |-> ArenaStart]
    BY DEF Reset, o
  <2> QED BY <1>2, <1>4, <2>1, <2>2 DEF Stores
<1> HIDE DEF g
<1>7. DOMAIN g.ents = {} /\ Len(g.ents) = 0
  BY <1>5
<1>8. Used(g) = {}
  BY <1>7 DEF Used
<1>9. Typed(g)
  BY <1>1, <1>6, <1>7 DEF Typed
<1>10. NamesSound(g)
  BY <1>8 DEF NamesSound
<1>11. BytesSound(g)
  BY <1>3, <1>5, <1>7 DEF BytesSound
<1>12. Fresh(g)
  BY <1>5, <1>8, <1>9, <1>10, <1>11 DEF Fresh, FilesSound
<1> QED BY <1>7, <1>8, <1>12 DEF Taken, g

(* put_game.                                                               *)
LEMMA PutInIs ==
  ASSUME NEW given \in Inputs
  PROVE  Fresh(PutIn(given)) /\ DirOf(PutIn(given)) = GivenDir(given, Len(given))
<1> DEFINE n == Len(given)
           put == CHOOSE f : f = [k \in 0 .. Len(given) |->
                                    IF k = 0 THEN Reset(Memory) ELSE Added(f[k - 1], given[k])]
           Good(k) == /\ Fresh(put[k]) /\ Len(put[k].ents) <= k
                      /\ DirOf(put[k]) = GivenDir(given, k)
           Bad == {k \in 0 .. n : ~Good(k)}
<1>1. given \in Seq(InputsAt) /\ n \in Nat /\ n <= MAX_ENTRIES /\ DOMAIN given = 1 .. n
      /\ MAX_ENTRIES \in Nat
  BY DosConstants, MemConstants
<1>2. PutsOf(given, put)
  BY <1>1, PutsExist DEF PutsOf
<1>3. PutIn(given) = put[n]
  BY DEF PutIn
<1> HIDE DEF put
<1>4. \A k \in 0 .. n : put[k] = IF k = 0 THEN Reset(Memory) ELSE Added(put[k - 1], given[k])
  BY <1>2 DEF PutsOf
<1>5. Good(0)
  <2>1. put[0] = Reset(Memory)
    BY <1>1, <1>4
  <2>2. Fresh(put[0]) /\ Len(put[0].ents) = 0 /\ Taken(put[0]) = {}
    BY <2>1, ResetIs
  <2>3. put[0] \in Stores /\ NamesSound(put[0])
    BY <2>2 DEF Fresh, FilesSound, Typed
  <2>4. DirOf(put[0]) = [name \in {} |-> Shown(put[0], Found(put[0], name))]
    BY <2>2, <2>3, DirIs
  <2>5. GivenDir(given, 0) = [name \in {} |-> GivenDir(given, 0)[name]]
    BY DEF GivenDir
  <2>6. DirOf(put[0]) = GivenDir(given, 0)
    BY <2>4, <2>5
  <2> QED BY <2>2, <2>6
<1>6. ASSUME NEW k \in 0 .. n, k # n, Good(k)
      PROVE  Good(k + 1)
  <2> DEFINE g == put[k]
  <2>1. k + 1 \in 0 .. n /\ k + 1 \in DOMAIN given /\ k + 1 # 0 /\ (k + 1) - 1 = k /\ k \in Nat
    <3>1. k \in Nat /\ k + 1 \in 0 .. n /\ k + 1 \in 1 .. n
      <4> HIDE DEF n, Good
      <4> QED BY <1>1, <1>6
    <3> QED BY <1>1, <3>1
  <2>2. put[k + 1] = Added(g, given[k + 1])
    BY <1>4, <2>1
  <2>3. Fresh(g) /\ Len(g.ents) <= k /\ DirOf(g) = GivenDir(given, k)
    BY <1>6
  <2>4. Len(g.ents) \in Nat
    BY <2>3, StoreParts DEF Fresh, FilesSound, Typed
  <2>5. Len(g.ents) < MAX_ENTRIES
    <3> HIDE DEF g, n, Good
    <3> QED BY <1>1, <1>6, <2>1, <2>3, <2>4
  <2> HIDE DEF g
  <2>6. /\ Fresh(Added(g, given[k + 1])) /\ Len(Added(g, given[k + 1]).ents) <= Len(g.ents) + 1
        /\ DirOf(Added(g, given[k + 1])) =
             Dir!With(DirOf(g), <<Last(given[k + 1].name)>>, Held(given[k + 1]))
    BY <2>1, <2>3, <2>5, AddedIs
  <2>7. Len(put[k + 1].ents) \in Nat
    BY <2>2, <2>6, StoreParts DEF Fresh, FilesSound, Typed
  <2>8. GivenDir(given, k + 1) =
          Dir!With(GivenDir(given, k), <<Last(given[k + 1].name)>>, Held(given[k + 1]))
    BY <2>1, GivenMore
  <2>9. Fresh(put[k + 1]) /\ DirOf(put[k + 1]) = GivenDir(given, k + 1)
    BY <2>2, <2>3, <2>6, <2>8
  <2>10. Len(put[k + 1].ents) <= k + 1
    BY <2>1, <2>2, <2>3, <2>4, <2>6, <2>7
  <2> QED BY <2>9, <2>10
<1> HIDE DEF Good
<1>7. Bad = {}
  <2> SUFFICES ASSUME Bad # {} PROVE FALSE
    OBVIOUS
  <2>1. Bad \in SUBSET Nat
    OBVIOUS
  <2>2. Least(Bad) \in Bad /\ \A y \in Bad : Least(Bad) <= y
    BY <2>1, LeastIs
  <2>3. PICK m \in 0 .. n : m = Least(Bad) /\ ~Good(m)
    BY <2>2
  <2>4. m # 0
    BY <1>5, <2>3
  <2>5. m - 1 \in 0 .. n /\ m - 1 # n /\ m - 1 \notin Bad /\ (m - 1) + 1 = m
    BY <1>1, <2>2, <2>3, <2>4
  <2>6. Good(m - 1)
    BY <2>5
  <2>7. Good((m - 1) + 1)
    BY <1>6, <2>5, <2>6
  <2> QED BY <2>3, <2>5, <2>7
<1>8. n \in 0 .. n
  BY <1>1
<1>9. Good(n)
  BY <1>7, <1>8
<1> QED BY <1>3, <1>9 DEF Good

(* The directory the guest is started in.                                  *)
LEMMA InitKept ==
  ASSUME Init
  PROVE  IInv /\ Dir!Init
<1> DEFINE t == [fd \in 1 .. NFiles |-> NoFd]
<1>1. PICK given \in Inputs : fs = PutIn(given)
  BY DEF Init
<1>2. Fresh(fs) /\ DirOf(fs) = GivenDir(given, Len(given))
  BY <1>1, PutInIs
<1>3. FilesSound(fs) /\ fs \in Stores
  BY <1>2 DEF Fresh, FilesSound, Typed
<1>4. fs_close_all(fs) = fs
  <2>1. fs.opens = [h \in 1 .. MAX_OPEN |-> NotOpen]
    BY <1>2 DEF Fresh
  <2>2. fs_close_all(fs) = [fs EXCEPT !.opens = fs.opens]
    BY <2>1 DEF fs_close_all
  <2> QED BY <1>3, <2>2 DEF Stores
<1>5. /\ AllSound(fs_close_all(fs), t) /\ HandsOf(fs_close_all(fs), t) = << >> /\ ImageOf(t) = << >>
  BY <1>3, AllClosed
<1>6. fds = t /\ over = FALSE /\ ret = Answer("end", 0, <<>>)
  BY DEF Init
<1> HIDE DEF t
<1>7. AllSound(fs, fds) /\ HandsOf(fs, fds) = << >> /\ ImageOf(fds) = << >>
  BY <1>4, <1>5, <1>6
<1>8. IInv
  BY <1>6, <1>7 DEF IInv
<1>9. DirOf(fs) \in {GivenDir(g, Len(g)) : g \in Inputs}
  BY <1>2
<1>10. ret = Dir!Answer("end", 0, <<>>)
  BY <1>6, AnswersAre
<1> QED BY <1>6, <1>7, <1>8, <1>9, <1>10 DEF Dir!Init

(* The guest's files are whole after every call, whatever it calls, and    *)
(* what it is answered is what DirSpec would have answered it: fs_mem.c    *)
(* and api_dos.c implement it.                                             *)
THEOREM FilesImplementDirectory == Spec => DosFilesKept
<1>1. Init => IInv /\ Dir!Init
  BY InitKept
<1>2. IInv /\ [Next]_vars => IInv' /\ [Dir!Next]_(Dir!specvars)
  BY StepKept
<1>3. IInv => DosFilesSound
  BY SoundIs
<1> QED BY <1>1, <1>2, <1>3, PTL DEF Spec, DosFilesKept, DirSpecHolds, Dir!Spec

=============================================================================
