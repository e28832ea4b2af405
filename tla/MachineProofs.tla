---------------------------- MODULE MachineProofs ----------------------------
(***************************************************************************)
(* What the interpreter promises.                                          *)
(*                                                                         *)
(* Floating point: the machine of module Fpu is the stack of module        *)
(* FpuSpec: its state is well formed, and each instruction does to         *)
(* View(Fpu) what the abstract step does.  Every instruction is made of    *)
(* four parts - a register written, a register emptied, the top moved, the *)
(* status word written - and each has a lemma that says what it does to    *)
(* the view.                                                               *)
(*                                                                         *)
(* The string instructions: however often one is repeated and whichever    *)
(* way it goes, it copies what it should and stops where it should.        *)
(*                                                                         *)
(* Calls and the stack: a return finds what its call put on the stack,     *)
(* whatever the procedure did in between.                                  *)
(***************************************************************************)
EXTENDS Fpu, Instructions, SequenceTheorems, NaturalsInduction, WellFoundedInduction,
        TLAPS

-----------------------------------------------------------------------------
(* The registers of floating point.                                       *)

\* The machines an instruction starts from and leaves.
Machines == [st : [Regs -> Numbers], tags : [Regs -> Tags], top : Regs, sw : SW]

\* Turning by one amount and then another is turning by both.
LEMMA AroundTwice ==
    ASSUME NEW a \in Regs, NEW d \in Regs, NEW i \in Regs
    PROVE  /\ Around(a + d) \in Regs
           /\ Around(Around(a + d) + i) = Around(a + Around(i + d))
<1>1. a \in Int /\ d \in Int /\ i \in Int /\ NREG \in Int
      /\ 0 <= a /\ a < NREG /\ 0 <= d /\ d < NREG /\ 0 <= i /\ i < NREG
  BY FpuConstants DEF Regs
<1>. QED  BY <1>1 DEF Around, Regs

\* A register's number stays one.
LEMMA PhysIsReg ==
    ASSUME NEW m \in Machines, NEW i \in Regs
    PROVE  Phys(m, i) \in Regs
BY FpuConstants, SMT DEF Machines, Regs, Phys, Around

\* Different places of the stack are different registers.
LEMMA PhysApart ==
    ASSUME NEW m \in Machines, NEW i \in Regs, NEW j \in Regs, i # j
    PROVE  Phys(m, i) # Phys(m, j)
BY FpuConstants, SMT DEF Machines, Regs, Phys, Around

\* A register written is a place of the view written, and held.
LEMMA StSetView ==
    ASSUME NEW m \in Machines, NEW i \in Regs, NEW v \in Numbers
    PROVE  /\ StSet(m, i, v) \in Machines
           /\ StSet(m, i, v).sw = m.sw /\ StSet(m, i, v).top = m.top
           /\ View(StSet(m, i, v)) = Seen!Put(View(m), i, v)
<1> DEFINE n == StSet(m, i, v)
<1>1. TagOf(v) \in Tags /\ TagOf(v) # "empty"
  BY DEF TagOf, Tags
<1>2. n \in Machines /\ n.sw = m.sw /\ n.top = m.top
  BY <1>1, PhysIsReg DEF StSet, Machines
<1>3. \A j \in Regs : Phys(n, j) = Phys(m, j)
  BY <1>2 DEF Phys
<1>4. n.st = [m.st EXCEPT ![Phys(m, i)] = v] /\ n.tags = [m.tags EXCEPT ![Phys(m, i)] = TagOf(v)]
  BY DEF StSet
<1>5. m.st \in [Regs -> Numbers] /\ m.tags \in [Regs -> Tags]
  BY DEF Machines
<1>6. ASSUME NEW j \in Regs
      PROVE  View(n)[j] = Seen!Put(View(m), i, v)[j]
  <2>1. CASE j = i
    BY <1>1, <1>3, <1>4, <1>5, <2>1, PhysIsReg DEF View, StGet, Seen!Put
  <2>2. CASE j # i
    BY <1>3, <1>4, <1>5, <2>2, PhysIsReg, PhysApart DEF View, StGet, Seen!Put
  <2>. QED  BY <2>1, <2>2
<1>7. View(n) = Seen!Put(View(m), i, v)
  BY <1>6 DEF View, Seen!Put
<1>. QED  BY <1>2, <1>7

\* A register emptied is a place of the view freed, its value left.
LEMMA EmptiedView ==
    ASSUME NEW m \in Machines, NEW i \in Regs
    PROVE  /\ Emptied(m, i) \in Machines
           /\ Emptied(m, i).sw = m.sw /\ Emptied(m, i).top = m.top
           /\ View(Emptied(m, i)) = Seen!Freed(View(m), i)
<1> DEFINE n == Emptied(m, i)
<1>1. /\ n \in Machines /\ n.sw = m.sw /\ n.top = m.top /\ n.st = m.st
      /\ n.tags = [m.tags EXCEPT ![Phys(m, i)] = "empty"]
  BY PhysIsReg DEF Emptied, Machines, Tags
<1>2. \A j \in Regs : Phys(n, j) = Phys(m, j)
  BY <1>1 DEF Phys
<1>3. m.st \in [Regs -> Numbers] /\ m.tags \in [Regs -> Tags]
  BY DEF Machines
<1>4. ASSUME NEW j \in Regs
      PROVE  View(n)[j] = Seen!Freed(View(m), i)[j]
  <2>1. CASE j = i
    BY <1>1, <1>2, <1>3, <2>1, PhysIsReg DEF View, StGet, Seen!Freed
  <2>2. CASE j # i
    BY <1>1, <1>2, <1>3, <2>2, PhysIsReg, PhysApart DEF View, StGet, Seen!Freed
  <2>. QED  BY <2>1, <2>2
<1>5. View(n) = Seen!Freed(View(m), i)
  BY <1>4 DEF View, Seen!Freed
<1>. QED  BY <1>1, <1>5

\* The top moved is the view turned.
LEMMA MovedView ==
    ASSUME NEW m \in Machines
    PROVE  /\ \A d \in {1, NREG - 1} : Moved(m, d) \in Machines /\ Moved(m, d).sw = m.sw
           /\ View(Moved(m, 1)) = Seen!Up(View(m))
           /\ View(Moved(m, NREG - 1)) = Seen!Down(View(m))
<1>1. ASSUME NEW d \in {1, NREG - 1}
      PROVE  /\ Moved(m, d) \in Machines /\ Moved(m, d).top = Around(m.top + d)
             /\ Moved(m, d).st = m.st /\ Moved(m, d).tags = m.tags /\ Moved(m, d).sw = m.sw
  <2>1. d \in Regs /\ m.top \in Regs
    BY FpuConstants DEF Machines, Regs
  <2>2. Around(m.top + d) \in Regs
    BY <2>1, AroundTwice
  <2>. QED  BY <2>2 DEF Moved, Machines
<1>2. ASSUME NEW d \in {1, NREG - 1}, NEW i \in Regs
      PROVE  Around(i + d) \in Regs /\ Phys(Moved(m, d), i) = Phys(m, Around(i + d))
  <2>1. d \in Regs /\ m.top \in Regs
    BY FpuConstants DEF Machines, Regs
  <2>2. Around(i + d) \in Regs
    BY <2>1, AroundTwice
  <2>3. Around(Around(m.top + d) + i) = Around(m.top + Around(i + d))
    BY <2>1, AroundTwice, ZenonT(60)
  <2>4. Phys(Moved(m, d), i) = Around(Moved(m, d).top + i)
    BY DEF Phys
  <2>5. Phys(m, Around(i + d)) = Around(m.top + Around(i + d))
    BY DEF Phys
  <2>. QED  BY <1>1, <2>2, <2>3, <2>4, <2>5
<1>3. ASSUME NEW d \in {1, NREG - 1}
      PROVE  View(Moved(m, d)) = [i \in Regs |-> View(m)[Around(i + d)]]
  BY <1>1, <1>2 DEF View, StGet
<1>4. \A i \in Regs : i + (NREG - 1) = i + NREG - 1
  BY FpuConstants DEF Regs
<1>5. View(Moved(m, NREG - 1)) = Seen!Down(View(m))
  BY <1>3, <1>4 DEF Seen!Down, Seen!Slots, Seen!Wrapped, Around, Regs
<1>. QED  BY <1>1, <1>3, <1>5 DEF Seen!Up, Seen!Slots, Seen!Wrapped, Around, Regs

\* The status word written is not in the view.
LEMMA SaidView ==
    ASSUME NEW m \in Machines, NEW cc, NEW raised \in SW
    PROVE  /\ Said(m, cc, raised) \in Machines
           /\ Said(m, cc, raised).sw = (m.sw \ cc) \cup raised
           /\ Said(m, cc, raised).top = m.top /\ Said(m, cc, raised).tags = m.tags
           /\ View(Said(m, cc, raised)) = View(m)
<1>1. /\ Said(m, cc, raised) \in Machines
      /\ Said(m, cc, raised).st = m.st /\ Said(m, cc, raised).tags = m.tags
      /\ Said(m, cc, raised).top = m.top /\ Said(m, cc, raised).sw = (m.sw \ cc) \cup raised
  BY DEF Said, Machines, SW
<1>. QED  BY <1>1 DEF View, StGet, Phys

\* A pop frees the top and turns the stack up.
LEMMA DiscardView ==
    ASSUME NEW m \in Machines
    PROVE  /\ FpuDiscard(m) \in Machines /\ FpuDiscard(m).sw = m.sw
           /\ View(FpuDiscard(m)) = Seen!Popped(View(m))
<1>1. 0 \in Regs
  BY FpuConstants DEF Regs
<1>. QED  BY <1>1, EmptiedView, MovedView DEF FpuDiscard, Seen!Popped

\* A push turns the stack down and writes its new top, and tells an overflow if
\* that was held.
LEMMA PushView ==
    ASSUME NEW m \in Machines, NEW v \in Numbers
    PROVE  /\ FpuPush(m, v) \in Machines
           /\ View(FpuPush(m, v)) = Seen!Put(Seen!Down(View(m)), 0, v)
           /\ ("SF" \in FpuPush(m, v).sw) = ("SF" \in m.sw \/ ~Seen!Down(View(m))[0].free)
<1> DEFINE n == Moved(m, NREG - 1)
           o == IF n.tags[n.top] # "empty" THEN Said(n, {}, {"C1", "IE", "SF"}) ELSE n
<1>1. 0 \in Regs /\ {"C1", "IE", "SF"} \in SW
  BY FpuConstants DEF Regs, SW
<1>2. n \in Machines /\ n.sw = m.sw /\ View(n) = Seen!Down(View(m))
  BY MovedView
<1>3. /\ o \in Machines /\ View(o) = View(n)
      /\ o.sw = IF n.tags[n.top] # "empty" THEN m.sw \cup {"C1", "IE", "SF"} ELSE m.sw
  <2>1. CASE n.tags[n.top] # "empty"
    <3>1. o = Said(n, {}, {"C1", "IE", "SF"})
      BY <2>1
    <3>2. m.sw \ {} = m.sw
      OBVIOUS
    <3>. QED  BY <1>1, <1>2, <2>1, <3>1, <3>2, SaidView
  <2>2. CASE n.tags[n.top] = "empty"
    BY <1>2, <2>2
  <2>. QED  BY <2>1, <2>2
<1>4. n.top \in Regs /\ Phys(n, 0) = n.top
  BY <1>2, FpuConstants, SMT DEF Machines, Phys, Around, Regs
<1>5. View(n)[0].free = (n.tags[n.top] = "empty")
  BY <1>1, <1>4 DEF View
<1>6. FpuPush(m, v) = StSet(o, 0, v)
  BY DEF FpuPush
<1>7. FpuPush(m, v) \in Machines /\ FpuPush(m, v).sw = o.sw
      /\ View(FpuPush(m, v)) = Seen!Put(View(o), 0, v)
  BY <1>1, <1>3, <1>6, StSetView
<1>8. ("SF" \in o.sw) = ("SF" \in m.sw \/ ~View(n)[0].free)
  <2>1. CASE n.tags[n.top] # "empty"
    <3>1. "SF" \in o.sw /\ ~View(n)[0].free
      BY <1>3, <1>5, <2>1
    <3>. QED  BY <3>1
  <2>2. CASE n.tags[n.top] = "empty"
    <3>1. o.sw = m.sw /\ View(n)[0].free
      BY <1>3, <1>5, <2>2
    <3>. QED  BY <3>1
  <2>. QED  BY <2>1, <2>2
<1>. QED  BY <1>2, <1>3, <1>7, <1>8

---------------------------------------------------------------------------
(* The specification *)

LEMMA FpuIsMachine ==
    ASSUME FpuTypeOK
    PROVE  /\ Fpu \in Machines /\ Fpu.sw = sw
           /\ environment.tags \in [Regs -> Tags] /\ environment.top \in Regs /\ environment.sw \in SW
BY DEF FpuTypeOK, Fpu, Machines

\* What the view is after a step that leaves m.
LEMMA LeavesView ==
    ASSUME NEW m \in Machines, Leaves(m)
    PROVE  /\ View(Fpu)' = View(m) /\ sw' = m.sw
           /\ st' \in [Regs -> Numbers] /\ tags' \in [Regs -> Tags]
           /\ fpuTop' \in Regs /\ sw' \in SW
<1>1. st' = m.st /\ tags' = m.tags /\ fpuTop' = m.top /\ sw' = m.sw
  BY DEF Leaves
<1>2. /\ Fpu' = [st |-> m.st, tags |-> m.tags, top |-> m.top, sw |-> m.sw]
  BY <1>1 DEF Fpu
<1>3. View(Fpu)' = View(m)
  BY <1>2 DEF View, StGet, Phys
<1>. QED  BY <1>1, <1>3 DEF Machines

\* The values that the view shows are numbers.
LEMMA StGetIsNumber ==
    ASSUME NEW m \in Machines, NEW i \in Regs
    PROVE  StGet(m, i) \in Numbers /\ View(m)[i].v = StGet(m, i)
BY PhysIsReg DEF StGet, Machines, View

\* The start: every register free and nothing in it.
LEMMA InitIsInit ==
    FpuInit => FpuTypeOK /\ View(Fpu) = [i \in Regs |-> [v |-> 0, free |-> TRUE]] /\ ~("SF" \in sw)
<1>. SUFFICES ASSUME FpuInit
              PROVE  FpuTypeOK /\ View(Fpu) = [i \in Regs |-> [v |-> 0, free |-> TRUE]] /\ ~("SF" \in sw)
  OBVIOUS
<1>1. 0 \in Regs /\ 0 \in Numbers /\ 0 \in 0 .. MostFpu
  BY FpuConstants DEF Regs, Numbers
<1>2. FpuTypeOK
  BY <1>1 DEF FpuInit, FpuReset, FpuTypeOK, Tags, SW
<1>3. st = [p \in Regs |-> 0] /\ tags = [p \in Regs |-> "empty"] /\ sw = {}
  BY DEF FpuInit, FpuReset
<1>4. Fpu \in Machines /\ Fpu.st = st /\ Fpu.tags = tags
  BY <1>2, FpuIsMachine DEF Fpu
<1>5. View(Fpu) = [i \in Regs |-> [v |-> 0, free |-> TRUE]]
  <2>1. ASSUME NEW i \in Regs
        PROVE  StGet(Fpu, i) = 0 /\ Fpu.tags[Phys(Fpu, i)] = "empty"
    BY <1>3, <1>4, PhysIsReg DEF StGet
  <2>. QED  BY <2>1 DEF View
<1>. QED  BY <1>2, <1>3, <1>5

\* The abstract step, of the view: what SpecNext says under the mapping.
SeenStep(s, t, over, overAfter) ==
    \/ \E v \in Numbers : t = Seen!Put(Seen!Down(s), 0, v) /\ overAfter = (over \/ ~Seen!Down(s)[0].free)
    \/ \E v, w \in Numbers :
          LET u == Seen!Put(s, 0, v)
          IN  t = Seen!Put(Seen!Down(u), 0, w) /\ overAfter = (over \/ ~Seen!Down(u)[0].free)
    \/ /\ overAfter = over
       /\ \/ t = s \/ t = Seen!Popped(s) \/ t = Seen!Popped(Seen!Popped(s))
          \/ \E i \in Regs, v \in Numbers : t = Seen!Put(s, i, v) \/ t = Seen!Popped(Seen!Put(s, i, v))
          \/ \E v \in Numbers : t = Seen!Put(Seen!Popped(s), 0, v)
          \/ \E i \in Regs : t = Seen!Put(Seen!Put(s, 0, s[i].v), i, s[0].v)
          \/ \E i \in Regs : t = Seen!Freed(s, i)
          \/ t = Seen!Up(s) \/ t = Seen!Down(s)
    \/ t = s /\ overAfter = FALSE
    \/ t = [i \in Regs |-> [v |-> 0, free |-> TRUE]] /\ overAfter = FALSE
    \/ \E free \in [Regs -> BOOLEAN], k \in Regs :
          t = [i \in Regs |-> [v |-> s[Around(i + k)].v, free |-> free[i]]]

LEMMA SeenStepIsNext ==
    ASSUME SeenStep(View(Fpu), View(Fpu)', "SF" \in sw, "SF" \in sw')
    PROVE  Seen!SpecNext
BY DEF SeenStep, Seen!SpecNext, Seen!Pushes, Seen!Changes, Seen!Slots, Seen!Wrapped, Regs, Around

Good ==
    /\ SeenStep(View(Fpu), View(Fpu)', "SF" \in sw, "SF" \in sw')
    /\ st' \in [Regs -> Numbers] /\ tags' \in [Regs -> Tags] /\ fpuTop' \in Regs /\ sw' \in SW

LEMMA LeavesGood ==
    ASSUME NEW m \in Machines, Leaves(m),
           SeenStep(View(Fpu), View(m), "SF" \in sw, "SF" \in m.sw)
    PROVE  Good
BY LeavesView DEF Good

\* What a backend reports, and C1 cleared: the overflow stays told, or not.
LEMMA StatusKept ==
    ASSUME NEW m \in Machines
    PROVE  /\ \A e \in Reports : /\ Commit(m, e) \in Machines /\ View(Commit(m, e)) = View(m)
                                 /\ ("SF" \in Commit(m, e).sw) = ("SF" \in m.sw)
           /\ C1Clear(m) \in Machines /\ View(C1Clear(m)) = View(m)
           /\ ("SF" \in C1Clear(m).sw) = ("SF" \in m.sw)
<1>1. ASSUME NEW e \in SW, ~("SF" \in e)
      PROVE  LET n == Said(m, {"C1"}, e)
             IN  n \in Machines /\ View(n) = View(m) /\ ("SF" \in n.sw) = ("SF" \in m.sw)
  <2>1. /\ Said(m, {"C1"}, e) \in Machines /\ View(Said(m, {"C1"}, e)) = View(m)
        /\ Said(m, {"C1"}, e).sw = (m.sw \ {"C1"}) \cup e
    BY SaidView
  <2>2. ("SF" \in Said(m, {"C1"}, e).sw) = ("SF" \in m.sw)
    BY <1>1, <2>1
  <2>. QED  BY <2>1, <2>2
<1>2. {} \in SW /\ \A e \in Reports : e \in SW /\ ~("SF" \in e)
  BY DEF Reports, SW
<1>. QED  BY <1>1, <1>2 DEF Commit, C1Clear

LEMMA LoadIsGood == ASSUME FpuTypeOK, Load PROVE Good
<1>1. Fpu \in Machines /\ Fpu.sw = sw
  BY FpuIsMachine
<1>2. ASSUME NEW m \in Machines, NEW v \in Numbers, Leaves(FpuPush(m, v)),
             View(m) = View(Fpu), ("SF" \in m.sw) = ("SF" \in sw)
      PROVE  Good
  <2>1. /\ FpuPush(m, v) \in Machines
        /\ View(FpuPush(m, v)) = Seen!Put(Seen!Down(View(Fpu)), 0, v)
        /\ ("SF" \in FpuPush(m, v).sw) = ("SF" \in sw \/ ~Seen!Down(View(Fpu))[0].free)
    BY <1>2, PushView
  <2>2. SeenStep(View(Fpu), View(FpuPush(m, v)), "SF" \in sw, "SF" \in FpuPush(m, v).sw)
    BY <2>1 DEF SeenStep
  <2>. QED  BY <1>2, <2>1, <2>2, LeavesGood
<1>3. ASSUME NEW v \in Numbers, NEW e \in Reports, Leaves(FpuPush(Commit(Fpu, e), v))
      PROVE  Good
  BY <1>1, <1>2, <1>3, StatusKept
<1>4. ASSUME NEW i \in Regs, Leaves(FpuPush(C1Clear(Fpu), StGet(Fpu, i)))
      PROVE  Good
  BY <1>1, <1>2, <1>4, StatusKept, StGetIsNumber
<1>. QED  BY <1>3, <1>4 DEF Load

LEMMA ArithIsGood == ASSUME FpuTypeOK, Arith PROVE Good
<1>1. Fpu \in Machines /\ Fpu.sw = sw
  BY FpuIsMachine
<1>2. PICK i \in Regs, v \in Numbers, e \in Reports, pop \in BOOLEAN :
         LET m == StSet(Commit(Fpu, e), i, v) IN Leaves(IF pop THEN FpuDiscard(m) ELSE m)
  BY DEF Arith
<1> DEFINE n == Commit(Fpu, e)
           m == StSet(n, i, v)
<1>3. /\ m \in Machines /\ View(m) = Seen!Put(View(Fpu), i, v)
      /\ ("SF" \in m.sw) = ("SF" \in sw)
  <2>1. n \in Machines /\ View(n) = View(Fpu) /\ ("SF" \in n.sw) = ("SF" \in sw)
    BY <1>1, StatusKept
  <2>2. m \in Machines /\ View(m) = Seen!Put(View(n), i, v) /\ m.sw = n.sw
    BY <2>1, StSetView
  <2>. QED  BY <2>1, <2>2
<1>4. CASE pop
  <2>1. /\ FpuDiscard(m) \in Machines /\ View(FpuDiscard(m)) = Seen!Popped(Seen!Put(View(Fpu), i, v))
        /\ FpuDiscard(m).sw = m.sw
    BY <1>3, DiscardView
  <2>2. SeenStep(View(Fpu), View(FpuDiscard(m)), "SF" \in sw, "SF" \in FpuDiscard(m).sw)
    BY <1>3, <2>1 DEF SeenStep
  <2>3. Leaves(FpuDiscard(m))
    BY <1>2, <1>4
  <2>. QED  BY <2>1, <2>2, <2>3, LeavesGood
<1>5. CASE ~pop
  <2>1. SeenStep(View(Fpu), View(m), "SF" \in sw, "SF" \in m.sw)
    BY <1>3 DEF SeenStep
  <2>2. Leaves(m)
    BY <1>2, <1>5
  <2>. QED  BY <1>3, <2>1, <2>2, LeavesGood
<1>. QED  BY <1>4, <1>5

LEMMA ComparisonIsGood == ASSUME FpuTypeOK, Comparison PROVE Good
<1>1. Fpu \in Machines /\ Fpu.sw = sw
  BY FpuIsMachine
<1>2. PICK e \in Reports :
         LET m == Commit(Fpu, e)
         IN  Leaves(m) \/ Leaves(FpuDiscard(m)) \/ Leaves(FpuDiscard(FpuDiscard(m)))
  BY DEF Comparison
<1> DEFINE m == Commit(Fpu, e)
           n == FpuDiscard(m)
           o == FpuDiscard(n)
<1>3. m \in Machines /\ View(m) = View(Fpu) /\ ("SF" \in m.sw) = ("SF" \in sw)
  BY <1>1, StatusKept
<1>4. n \in Machines /\ View(n) = Seen!Popped(View(m)) /\ n.sw = m.sw
  BY <1>3, DiscardView
<1>5. o \in Machines /\ View(o) = Seen!Popped(View(n)) /\ o.sw = n.sw
  BY <1>4, DiscardView
<1>6. /\ SeenStep(View(Fpu), View(m), "SF" \in sw, "SF" \in m.sw)
      /\ SeenStep(View(Fpu), View(n), "SF" \in sw, "SF" \in n.sw)
      /\ SeenStep(View(Fpu), View(o), "SF" \in sw, "SF" \in o.sw)
  BY <1>3, <1>4, <1>5 DEF SeenStep
<1>. QED  BY <1>2, <1>3, <1>4, <1>5, <1>6, LeavesGood

LEMMA StoreIsGood == ASSUME FpuTypeOK, Store PROVE Good
<1>1. Fpu \in Machines /\ Fpu.sw = sw
  BY FpuIsMachine
<1>2. PICK i \in Regs, pop \in BOOLEAN :
         LET m == C1Clear(StSet(Fpu, i, StGet(Fpu, 0)))
         IN  Leaves(IF pop THEN FpuDiscard(m) ELSE m)
  BY DEF Store
<1> DEFINE v == StGet(Fpu, 0)
           n == StSet(Fpu, i, v)
           m == C1Clear(n)
<1>3. v \in Numbers
  BY <1>1, StGetIsNumber, FpuConstants DEF Regs
<1>4. n \in Machines /\ View(n) = Seen!Put(View(Fpu), i, v) /\ n.sw = sw
  BY <1>1, <1>3, StSetView
<1>5. m \in Machines /\ View(m) = View(n) /\ ("SF" \in m.sw) = ("SF" \in sw)
  BY <1>4, StatusKept
<1>6. /\ FpuDiscard(m) \in Machines /\ View(FpuDiscard(m)) = Seen!Popped(View(m))
      /\ FpuDiscard(m).sw = m.sw
  BY <1>5, DiscardView
<1>7. /\ SeenStep(View(Fpu), View(m), "SF" \in sw, "SF" \in m.sw)
      /\ SeenStep(View(Fpu), View(FpuDiscard(m)), "SF" \in sw, "SF" \in FpuDiscard(m).sw)
  BY <1>3, <1>4, <1>5, <1>6 DEF SeenStep
<1>8. Leaves(m) \/ Leaves(FpuDiscard(m))
  BY <1>2
<1>. QED  BY <1>5, <1>6, <1>7, <1>8, LeavesGood

LEMMA FxchIsGood == ASSUME FpuTypeOK, Fxch PROVE Good
<1>1. Fpu \in Machines /\ Fpu.sw = sw /\ 0 \in Regs
  BY FpuIsMachine, FpuConstants DEF Regs
<1>2. PICK i \in Regs : Leaves(C1Clear(StSet(StSet(Fpu, 0, StGet(Fpu, i)), i, StGet(Fpu, 0))))
  BY DEF Fxch
<1> DEFINE a == StGet(Fpu, 0)
           b == StGet(Fpu, i)
           n == StSet(Fpu, 0, b)
           o == StSet(n, i, a)
           m == C1Clear(o)
<1>3. a \in Numbers /\ View(Fpu)[0].v = a /\ b \in Numbers /\ View(Fpu)[i].v = b
  BY <1>1, StGetIsNumber
<1>4. n \in Machines /\ View(n) = Seen!Put(View(Fpu), 0, b) /\ n.sw = sw
  BY <1>1, <1>3, StSetView
<1>5. o \in Machines /\ View(o) = Seen!Put(View(n), i, a) /\ o.sw = sw
  BY <1>3, <1>4, StSetView
<1>6. m \in Machines /\ View(m) = View(o) /\ ("SF" \in m.sw) = ("SF" \in sw)
  BY <1>5, StatusKept
<1>7. SeenStep(View(Fpu), View(m), "SF" \in sw, "SF" \in m.sw)
  BY <1>3, <1>4, <1>5, <1>6 DEF SeenStep
<1>. QED  BY <1>2, <1>6, <1>7, LeavesGood

LEMMA SpecialIsGood == ASSUME FpuTypeOK, Special PROVE Good
<1>1. Fpu \in Machines /\ Fpu.sw = sw /\ 0 \in Regs
  BY FpuIsMachine, FpuConstants DEF Regs
<1>2. ASSUME NEW v \in Numbers, NEW e \in Reports,
             Leaves(StSet(Commit(FpuDiscard(Fpu), e), 0, v))
      PROVE  Good
  <2> DEFINE n == FpuDiscard(Fpu)
             o == Commit(n, e)
             m == StSet(o, 0, v)
  <2>1. n \in Machines /\ View(n) = Seen!Popped(View(Fpu)) /\ n.sw = sw
    BY <1>1, DiscardView
  <2>2. o \in Machines /\ View(o) = View(n) /\ ("SF" \in o.sw) = ("SF" \in sw)
    BY <2>1, StatusKept
  <2>3. m \in Machines /\ View(m) = Seen!Put(View(o), 0, v) /\ m.sw = o.sw
    BY <1>1, <2>2, StSetView
  <2>4. SeenStep(View(Fpu), View(m), "SF" \in sw, "SF" \in m.sw)
    BY <2>1, <2>2, <2>3 DEF SeenStep
  <2>. QED  BY <1>2, <2>3, <2>4, LeavesGood
<1>3. ASSUME NEW v \in Numbers, NEW w \in Numbers, NEW e \in Reports,
             Leaves(FpuPush(StSet(Commit(Fpu, e), 0, v), w))
      PROVE  Good
  <2> DEFINE n == Commit(Fpu, e)
             o == StSet(n, 0, v)
             m == FpuPush(o, w)
  <2>1. n \in Machines /\ View(n) = View(Fpu) /\ ("SF" \in n.sw) = ("SF" \in sw)
    BY <1>1, StatusKept
  <2>2. o \in Machines /\ View(o) = Seen!Put(View(n), 0, v) /\ o.sw = n.sw
    BY <1>1, <2>1, StSetView
  <2>3. /\ m \in Machines /\ View(m) = Seen!Put(Seen!Down(View(o)), 0, w)
        /\ ("SF" \in m.sw) = ("SF" \in o.sw \/ ~Seen!Down(View(o))[0].free)
    BY <2>2, PushView
  <2>4. SeenStep(View(Fpu), View(m), "SF" \in sw, "SF" \in m.sw)
    BY <2>1, <2>2, <2>3 DEF SeenStep
  <2>. QED  BY <1>3, <2>3, <2>4, LeavesGood
<1>. QED  BY <1>2, <1>3 DEF Special

LEMMA SteppedIsGood == ASSUME FpuTypeOK, Stepped PROVE Good
<1>1. Fpu \in Machines /\ Fpu.sw = sw /\ {} \in SW
  BY FpuIsMachine DEF SW
<1>2. ASSUME NEW d \in {1, NREG - 1}, Leaves(C1Clear(Moved(Fpu, d)))
      PROVE  Good
  <2> DEFINE n == Moved(Fpu, d)
             m == C1Clear(n)
  <2>1. /\ n \in Machines /\ n.sw = sw
        /\ View(n) = Seen!Up(View(Fpu)) \/ View(n) = Seen!Down(View(Fpu))
    BY <1>1, MovedView
  <2>2. m \in Machines /\ View(m) = View(n) /\ ("SF" \in m.sw) = ("SF" \in sw)
    BY <2>1, StatusKept
  <2>3. SeenStep(View(Fpu), View(m), "SF" \in sw, "SF" \in m.sw)
    BY <2>1, <2>2 DEF SeenStep
  <2>. QED  BY <1>2, <2>2, <2>3, LeavesGood
<1>3. ASSUME NEW i \in Regs, Leaves(C1Clear(Emptied(Fpu, i)))
      PROVE  Good
  <2> DEFINE n == Emptied(Fpu, i)
             m == C1Clear(n)
  <2>1. n \in Machines /\ n.sw = sw /\ View(n) = Seen!Freed(View(Fpu), i)
    BY <1>1, EmptiedView
  <2>2. m \in Machines /\ View(m) = View(n) /\ ("SF" \in m.sw) = ("SF" \in sw)
    BY <2>1, StatusKept
  <2>3. SeenStep(View(Fpu), View(m), "SF" \in sw, "SF" \in m.sw)
    BY <2>1, <2>2 DEF SeenStep
  <2>. QED  BY <1>3, <2>2, <2>3, LeavesGood
<1>4. ASSUME Leaves(Said(Fpu, {"IE", "SF"}, {}))
      PROVE  Good
  <2> DEFINE m == Said(Fpu, {"IE", "SF"}, {})
  <2>1. m \in Machines /\ View(m) = View(Fpu) /\ m.sw = (sw \ {"IE", "SF"}) \cup {}
    BY <1>1, SaidView
  <2>2. ("SF" \in m.sw) = FALSE
    BY <2>1
  <2>3. SeenStep(View(Fpu), View(m), "SF" \in sw, "SF" \in m.sw)
    BY <2>1, <2>2 DEF SeenStep
  <2>. QED  BY <1>4, <2>1, <2>3, LeavesGood
<1>5. ASSUME Leaves(FpuReset)
      PROVE  Good
  <2>1. 0 \in Regs /\ 0 \in Numbers
    BY FpuConstants DEF Regs, Numbers
  <2>2. FpuReset \in Machines /\ FpuReset.sw = {}
    BY <1>1, <2>1 DEF FpuReset, Machines, Tags
  <2>3. FpuReset.st = [p \in Regs |-> 0] /\ FpuReset.tags = [p \in Regs |-> "empty"]
    BY DEF FpuReset
  <2>4. ASSUME NEW i \in Regs
        PROVE  StGet(FpuReset, i) = 0 /\ FpuReset.tags[Phys(FpuReset, i)] = "empty"
    BY <2>2, <2>3, PhysIsReg DEF StGet
  <2>5. View(FpuReset) = [i \in Regs |-> [v |-> 0, free |-> TRUE]]
    BY <2>4 DEF View
  <2>6. ("SF" \in FpuReset.sw) = FALSE
    BY <2>2
  <2>7. SeenStep(View(Fpu), View(FpuReset), "SF" \in sw, "SF" \in FpuReset.sw)
    BY <2>5, <2>6 DEF SeenStep
  <2>. QED  BY <1>5, <2>2, <2>7, LeavesGood
<1>. QED  BY <1>2, <1>3, <1>4, <1>5 DEF Stepped

\* FLDENV turns the stack to the environment's top: a place of the new view is the
\* place of the old one as far from it as the tops are from one another.
LEMMA LoadEnvironmentIsGood == ASSUME FpuTypeOK, LoadEnvironment PROVE Good
<1>1. /\ fpuTop \in Regs /\ environment.top \in Regs /\ st \in [Regs -> Numbers]
      /\ environment.tags \in [Regs -> Tags] /\ environment.sw \in SW
  BY FpuIsMachine DEF FpuTypeOK
<1>2. /\ st' = st /\ tags' = environment.tags
      /\ fpuTop' = environment.top /\ sw' = environment.sw
  BY DEF LoadEnvironment
<1> DEFINE k == Around(environment.top + (NREG - fpuTop))
<1>3. k \in Regs /\ \A i \in Regs : /\ Around(i + k) \in Regs
                                   /\ Around(environment.top + i) \in Regs
                                   /\ Around(environment.top + i) = Around(fpuTop + Around(i + k))
  <2>1. /\ environment.top \in Int /\ fpuTop \in Int /\ NREG \in Int
        /\ 0 <= environment.top /\ environment.top < NREG /\ 0 <= fpuTop /\ fpuTop < NREG
    BY <1>1, FpuConstants DEF Regs
  <2>2. k \in Int /\ 0 <= k /\ k < NREG
        /\ (k = environment.top - fpuTop \/ k = environment.top - fpuTop + NREG)
    BY <2>1 DEF Around
  <2>3. ASSUME NEW i \in Regs
        PROVE  /\ Around(i + k) \in Regs
               /\ Around(environment.top + i) \in Regs
               /\ Around(environment.top + i) = Around(fpuTop + Around(i + k))
    <3>1. i \in Int /\ 0 <= i /\ i < NREG
      BY FpuConstants DEF Regs
    <3> HIDE DEF k
    <3>. QED  BY <2>1, <2>2, <3>1 DEF Around, Regs
  <2>. QED  BY <2>2, <2>3, FpuConstants DEF Regs
<1> HIDE DEF k
<1> DEFINE free == [i \in Regs |-> environment.tags[Around(environment.top + i)] = "empty"]
<1>4. free \in [Regs -> BOOLEAN]
  OBVIOUS
<1>5. ASSUME NEW i \in Regs
      PROVE  st[Around(environment.top + i)] = View(Fpu)[Around(i + k)].v
  <2>1. View(Fpu)[Around(i + k)].v = st[Around(fpuTop + Around(i + k))]
    BY <1>3 DEF View, StGet, Phys, Fpu
  <2>. QED  BY <1>3, <2>1
<1>6. View(Fpu)' = [i \in Regs |-> [v |-> st[Around(environment.top + i)],
                                   free |-> environment.tags[Around(environment.top + i)] = "empty"]]
  BY <1>2 DEF View, StGet, Phys, Fpu
<1>7. View(Fpu)' = [i \in Regs |-> [v |-> View(Fpu)[Around(i + k)].v, free |-> free[i]]]
  BY <1>5, <1>6
<1>8. SeenStep(View(Fpu), View(Fpu)', "SF" \in sw, "SF" \in sw')
  BY <1>3, <1>4, <1>7 DEF SeenStep
<1>. QED  BY <1>1, <1>2, <1>8 DEF Good

\* An instruction keeps the state well formed, and is a step of the abstract stack
\* or leaves it alone.
LEMMA InstructionIsStep ==
    ASSUME FpuTypeOK, FpuNext
    PROVE  FpuTypeOK' /\ (Seen!SpecNext \/ UNCHANGED Seen!specVars)
<1>1. fpuSteps' \in 0 .. MostFpu
  BY FpuConstants DEF FpuTypeOK, FpuNext
<1>2. CASE Kept /\ (Load \/ Arith \/ Comparison \/ Store \/ Fxch \/ Special \/ Stepped)
  <2>1. Good
    BY <1>2, LoadIsGood, ArithIsGood, ComparisonIsGood, StoreIsGood, FxchIsGood,
       SpecialIsGood, SteppedIsGood
  <2>2. FpuTypeOK'
    BY <1>1, <1>2, <2>1 DEF Good, Kept, FpuTypeOK
  <2>3. Seen!SpecNext
    BY <2>1, SeenStepIsNext DEF Good
  <2>. QED  BY <2>2, <2>3
<1>3. CASE LoadEnvironment
  <2>1. Good
    BY <1>3, LoadEnvironmentIsGood
  <2>2. FpuTypeOK'
    BY <1>1, <1>3, <2>1 DEF Good, LoadEnvironment, Kept, FpuTypeOK
  <2>3. Seen!SpecNext
    BY <2>1, SeenStepIsNext DEF Good
  <2>. QED  BY <2>2, <2>3
<1>4. CASE StoreEnvironment
  <2>1. /\ environment' = [tags |-> tags, top |-> fpuTop, sw |-> sw]
        /\ st' = st /\ tags' = tags /\ fpuTop' = fpuTop /\ sw' = sw
    BY <1>4 DEF StoreEnvironment
  <2>2. FpuTypeOK'
    BY <1>1, <2>1 DEF FpuTypeOK
  <2>3. UNCHANGED Seen!specVars
    BY <2>1 DEF Seen!specVars, View, StGet, Phys, Fpu
  <2>. QED  BY <2>2, <2>3
<1>. QED  BY <1>2, <1>3, <1>4 DEF FpuNext, Instruction

\* The registers, tags, top and stored environment stay well formed.
THEOREM FpuTypeCorrect == FpuSpecification => []FpuTypeOK
<1>1. FpuInit => FpuTypeOK
  BY InitIsInit
<1>2. FpuTypeOK /\ [FpuNext]_fpuVars => FpuTypeOK'
  <2>1. FpuTypeOK /\ UNCHANGED fpuVars => FpuTypeOK'
    BY DEF FpuTypeOK, fpuVars
  <2>. QED  BY <2>1, InstructionIsStep
<1>. QED  BY <1>1, <1>2, PTL DEF FpuSpecification

\* The x87 of fpu.c, with any number of registers, is the stack a guest sees: what
\* was pushed stays under what is pushed after it, and a pop takes it and no other.
THEOREM FpuIsAStack == FpuSpecification => StackSeen
<1>1. FpuInit => Seen!SpecInit
  BY InitIsInit DEF Seen!SpecInit, Seen!Slots, Regs
<1>2. FpuTypeOK /\ [FpuNext]_fpuVars => [Seen!SpecNext]_(Seen!specVars)
  <2>1. UNCHANGED fpuVars => UNCHANGED Seen!specVars
    BY DEF fpuVars, Seen!specVars, View, StGet, Phys, Fpu
  <2>. QED  BY <2>1, InstructionIsStep
<1>. QED  BY <1>1, <1>2, FpuTypeCorrect, PTL DEF FpuSpecification, StackSeen, Seen!SpecSpec

-----------------------------------------------------------------------------
(* The string instructions.                                                 *)

\* The registers and segments an instruction may find.
StrRegisters == [si : 0 .. SEG - 1, di : 0 .. SEG - 1, cx : Nat, ax : [1 .. 2 -> Bytes],
                 df : BOOLEAN, zf : BOOLEAN, cf : BOOLEAN, override : Segs \cup {"no"}]
StrMemories == [Segs -> [0 .. SEG -> Bytes]]

StringSpecification == StrInit(StrRegisters, StrMemories) /\ [][Begin \/ Repeat]_strVars

Reps == {"no", "repe", "repne"}
Strings == [running : BOOLEAN, op : StrOps, size : {1, 2}, rep : Reps, src : Segs,
            asked : OpPrefixes]

\* The rounds done, of an instruction under way or over.
RoundsDone == IF str.rep = "no" THEN IF str.running THEN 0 ELSE 1 ELSE was.c.cx - c.cx

\* None of the values so far wraps.
SoFar(reg) == \A i \in 0 .. RoundsDone - 1 : Nth(reg, i) \in 0 .. SEG - str.size

StrTypes ==
  /\ c \in StrRegisters /\ bytes \in StrMemories
  /\ was \in [c : StrRegisters, bytes : StrMemories]
  /\ str = [running |-> FALSE, op |-> "none"] \/ str \in Strings

\* Where the registers are, and what they keep.
CountsKept ==
  /\ RoundsDone \in Nat
  /\ str.running /\ str.rep # "no" => c.cx > 0
  /\ str.src = Source
  /\ c.df = was.c.df
  /\ str.op # "lods" => c.ax = was.c.ax
  /\ str.op \in {"movs", "cmps"} /\ SoFar("si") => c.si = Nth("si", RoundsDone) % SEG
  /\ str.op \in {"movs", "cmps", "scas"} /\ SoFar("di") => c.di = Nth("di", RoundsDone) % SEG

\* What k rounds of a copy have come to, w apart, of size bytes, from s to d.
InNth(a, i, w, size, o) == o \in a + i * w .. a + i * w + size - 1
CopyHolds(mem, old, s, d, size, w, src, k) ==
  LET apart == IF w < 0 THEN s - d ELSE d - s
      ahead == src = "es" /\ apart > 0
  IN  /\ mem["ds"] = old["ds"]
      /\ \A o \in 0 .. SEG : (\A i \in 0 .. k - 1 : ~InNth(d, i, w, size, o)) =>
                                mem["es"][o] = old["es"][o]
      /\ ~ahead \/ apart >= size =>
           \A i \in 0 .. k - 1 : \A j \in 0 .. size - 1 :
              mem["es"][d + i * w + j] = (IF ahead THEN mem ELSE old)[src][s + i * w + j]

CopiesSoFar ==
  str.op = "movs" /\ SoFar("si") /\ SoFar("di") =>
    CopyHolds(bytes, was.bytes, was.c.si, was.c.di, str.size, Way, Source, RoundsDone)

\* What ends a scan or a comparison at its i-th value.
Ends(i) ==
  LET a == IF str.op = "scas" THEN SubSeq(was.c.ax, 1, str.size)
           ELSE Read(bytes, Source, Nth("si", i), str.size)
  IN  (a = Read(bytes, "es", Nth("di", i), str.size)) = (str.rep = "repne")

ScansSoFar ==
  str.op \in {"scas", "cmps"} /\ SoFar("si") /\ SoFar("di") =>
    /\ str.rep # "no" => \A i \in 0 .. RoundsDone - 1 : Ends(i) => i = RoundsDone - 1 /\ ~str.running
    /\ str.rep # "no" /\ RoundsDone > 0 /\ ~str.running => c.cx = 0 \/ Ends(RoundsDone - 1)
    /\ RoundsDone > 0 => c.zf = (Ends(RoundsDone - 1) = (str.rep = "repne"))

StrInv == StrTypes /\ (str \in Strings => CountsKept /\ CopiesSoFar /\ ScansSoFar)

-----------------------------------------------------------------------------

\* A set of numbers that is not empty has a least one.
LEMMA LeastOf ==
  ASSUME NEW S \in SUBSET Nat, S # {}
  PROVE  \E x \in S : \A y \in S : x <= y
<1> DEFINE R == {ss \in Nat \X Nat : ss[1] < ss[2]}
<1>1. IsWellFoundedOn(R, Nat)
  BY NatLessThanWellFounded DEF OpToRel
<1>2. \A x, y \in Nat : <<y, x>> \in R <=> y < x
  OBVIOUS
<1> HIDE DEF R
<1>3. PICK x \in S : \A y \in S : ~(<<y, x>> \in R)
  BY <1>1, WFMin
<1>4. \A y \in S : y \in Nat /\ x \in Nat /\ ~(y < x)
  BY <1>2, <1>3
<1>5. \A y \in S : x <= y
  BY <1>4
<1> QED BY <1>5

\* Places of a sequence have a last one.
LEMMA LastPlace ==
  ASSUME NEW n \in Nat, NEW at_ \in SUBSET (1 .. n), at_ # {}
  PROVE  \E i \in at_ : \A j \in at_ : j <= i
<1> DEFINE S == {n - i : i \in at_}
<1>1. S \in SUBSET Nat /\ S # {}
  <2>1. \A i \in at_ : i \in Int /\ n - i \in Nat
    OBVIOUS
  <2>2. PICK i \in at_ : TRUE
    OBVIOUS
  <2>3. n - i \in S
    OBVIOUS
  <2> QED BY <2>1, <2>3
<1>2. PICK x \in S : \A y \in S : x <= y
  BY <1>1, LeastOf
<1>3. PICK i \in at_ : x = n - i
  OBVIOUS
<1>4. ASSUME NEW j \in at_ PROVE j <= i
  <2>1. n - j \in S
    OBVIOUS
  <2>2. n - i <= n - j
    BY <1>2, <1>3, <2>1
  <2>3. i \in Int /\ j \in Int
    OBVIOUS
  <2> QED BY <2>2, <2>3
<1> QED BY <1>4

\* The prefixes name a segment, a repetition, or neither.
LEMMA PrefixedIs ==
  ASSUME NEW ps \in OpPrefixes, NEW m
  PROVE  /\ Prefixed(ps, m) \in [override : Segs \cup {"no"}, rep : Reps]
         /\ LET at_ == {i \in DOMAIN ps : ps[i] \in Segs}
            IN  Prefixed(ps, m).override =
                  IF at_ = {} THEN "no" ELSE ps[CHOOSE i \in at_ : \A j \in at_ : j <= i]
<1>1. ps \in Seq({"ds", "es", "repe", "repne"})
  BY StringConstants
<1>2. PICK n \in Nat : DOMAIN ps = 1 .. n
  BY <1>1
<1>3. ASSUME NEW S, NEW dflt
      PROVE  LET at_ == {i \in DOMAIN ps : ps[i] \in S}
                 v == IF at_ = {} THEN dflt ELSE ps[CHOOSE i \in at_ : \A j \in at_ : j <= i]
             IN  v \in S \cup {dflt}
  <2> DEFINE at_ == {i \in DOMAIN ps : ps[i] \in S}
  <2>1. CASE at_ = {}
    BY <2>1
  <2>2. CASE at_ # {}
    <3>1. at_ \in SUBSET (1 .. n)
      BY <1>2
    <3>2. \E i \in at_ : \A j \in at_ : j <= i
      BY <2>2, <3>1, LastPlace
    <3>3. (CHOOSE i \in at_ : \A j \in at_ : j <= i) \in at_
      BY <3>2
    <3> QED BY <2>2, <3>3
  <2> QED BY <2>1, <2>2
<1>4. Prefixed(ps, m).override \in Segs \cup {"no"}
  BY <1>3 DEF Prefixed, NoOverride
<1>5. Prefixed(ps, m).rep \in {"repe", "repne"} \cup {"no"}
  BY <1>3 DEF Prefixed
<1>6. Prefixed(ps, m) = [override |-> Prefixed(ps, m).override, rep |-> Prefixed(ps, m).rep]
  BY DEF Prefixed
<1>7. LET at_ == {i \in DOMAIN ps : ps[i] \in Segs}
      IN  Prefixed(ps, m).override =
            IF at_ = {} THEN "no" ELSE ps[CHOOSE i \in at_ : \A j \in at_ : j <= i]
  BY DEF Prefixed, NoOverride
<1> QED BY <1>4, <1>5, <1>6, <1>7 DEF Reps

\* A value read is size bytes.
LEMMA ReadIs ==
  ASSUME NEW mem \in StrMemories, NEW seg \in Segs, NEW off \in 0 .. SEG - 1, NEW size \in {1, 2}
  PROVE  Read(mem, seg, off, size) \in [1 .. size -> Bytes]
<1>1. mem[seg] \in [0 .. SEG -> Bytes]
  BY DEF StrMemories
<1>2. \A i \in 1 .. size : off + i - 1 \in 0 .. SEG
  BY StringConstants
<1> QED BY <1>1, <1>2 DEF Read

\* The memory n is mem with v written, and so has v's bytes and all others of mem.
WrittenAs(n, mem, off, v) == n = Written(mem, "es", off, v)
Lands(n, mem, off, size, v) ==
  /\ n \in StrMemories /\ n["ds"] = mem["ds"]
  /\ \A o \in 0 .. SEG :
       n["es"][o] = IF o \in off .. off + size - 1 THEN v[o - off + 1] ELSE mem["es"][o]

LEMMA WrittenIs ==
  ASSUME NEW mem \in StrMemories, NEW off \in 0 .. SEG - 1, NEW size \in {1, 2},
         NEW v \in [1 .. size -> Bytes], NEW n, WrittenAs(n, mem, off, v)
  PROVE  Lands(n, mem, off, size, v)
<1>1. mem["es"] \in [0 .. SEG -> Bytes] /\ mem["ds"] \in [0 .. SEG -> Bytes]
      /\ DOMAIN mem = Segs /\ "es" \in Segs /\ "ds" \in Segs
  BY DEF StrMemories, Segs
<1>2. DOMAIN v = 1 .. size /\ SEG \in Nat
  BY StringConstants
<1> DEFINE e == [o \in 0 .. SEG |-> IF o - off + 1 \in DOMAIN v THEN v[o - off + 1] ELSE mem["es"][o]]
<1>3. n = [mem EXCEPT !["es"] = e]
  BY <1>1 DEF Written, WrittenAs
<1>4. e \in [0 .. SEG -> Bytes]
  BY <1>1, <1>2
<1>5. \A o \in 0 .. SEG : o - off + 1 \in DOMAIN v <=> o \in off .. off + size - 1
  BY <1>2
<1>6. \A o \in 0 .. SEG :
        e[o] = IF o \in off .. off + size - 1 THEN v[o - off + 1] ELSE mem["es"][o]
  BY <1>5
<1> HIDE DEF e
<1>7. n["es"] = e /\ n["ds"] = mem["ds"]
  BY <1>1, <1>3
<1>8. n \in StrMemories
  BY <1>1, <1>3, <1>4 DEF StrMemories
<1> QED BY <1>6, <1>7, <1>8 DEF Lands

\* Values w apart are at least their size apart.
LEMMA Strides ==
  ASSUME NEW size \in {1, 2}, NEW w \in {size, -size}
  PROVE  /\ \A i \in Nat : i * w \in Int /\ (i + 1) * w = i * w + w
         /\ w > 0 => \A i, k \in Nat : i < k => i * w + size <= k * w
         /\ w < 0 => \A i, k \in Nat : i < k => k * w + size <= i * w
<1>1. CASE w = 1 BY <1>1
<1>2. CASE w = 2 BY <1>2
<1>3. CASE w = -1 BY <1>3
<1>4. CASE w = -2 BY <1>4
<1> QED BY <1>1, <1>2, <1>3, <1>4

\* One more round of a copy.
LEMMA CopyOn ==
  ASSUME NEW mem \in StrMemories, NEW old \in StrMemories, NEW s \in Int, NEW d \in Int,
         NEW size \in {1, 2}, NEW w \in {size, -size}, NEW src \in Segs, NEW k \in Nat,
         CopyHolds(mem, old, s, d, size, w, src, k),
         \A i \in 0 .. k : s + i * w \in 0 .. SEG - size /\ d + i * w \in 0 .. SEG - size,
         NEW n, WrittenAs(n, mem, d + k * w, Read(mem, src, s + k * w, size))
  PROVE  n \in StrMemories /\ CopyHolds(n, old, s, d, size, w, src, k + 1)
<1> DEFINE T(i) == i * w
           apart == IF w < 0 THEN s - d ELSE d - s
           ahead == src = "es" /\ apart > 0
<1>1. /\ \A i \in Nat : T(i) \in Int
      /\ w > 0 => \A i, j \in Nat : i < j => T(i) + size <= T(j)
      /\ w < 0 => \A i, j \in Nat : i < j => T(j) + size <= T(i)
  BY Strides
<1>2. \A i \in 0 .. k : s + T(i) \in 0 .. SEG - size /\ d + T(i) \in 0 .. SEG - size
  OBVIOUS
<1>3. /\ mem["ds"] = old["ds"]
      /\ \A o \in 0 .. SEG : (\A i \in 0 .. k - 1 : ~(o \in d + T(i) .. d + T(i) + size - 1)) =>
                                mem["es"][o] = old["es"][o]
      /\ ~ahead \/ apart >= size =>
           \A i \in 0 .. k - 1 : \A j \in 0 .. size - 1 :
              mem["es"][d + T(i) + j] = (IF ahead THEN mem ELSE old)[src][s + T(i) + j]
  BY DEF CopyHolds, InNth
<1>4. WrittenAs(n, mem, d + T(k), Read(mem, src, s + T(k), size))
  OBVIOUS
<1>5. SUFFICES
        /\ n \in StrMemories
        /\ n["ds"] = old["ds"]
        /\ \A o \in 0 .. SEG : (\A i \in 0 .. k : ~(o \in d + T(i) .. d + T(i) + size - 1)) =>
                                  n["es"][o] = old["es"][o]
        /\ ~ahead \/ apart >= size =>
             \A i \in 0 .. k : \A j \in 0 .. size - 1 :
                n["es"][d + T(i) + j] = (IF ahead THEN n ELSE old)[src][s + T(i) + j]
  <2> DEFINE K == k + 1
  <2>1. K - 1 = k
    OBVIOUS
  <2> HIDE DEF K
  <2>2. CopyHolds(n, old, s, d, size, w, src, K)
    BY <1>5, <2>1 DEF CopyHolds, InNth
  <2> QED BY <1>5, <2>2 DEF K
<1>6. SEG \in Nat /\ T(k) \in Int /\ (w < 0 \/ w > 0) /\ (w > 0 => ~(w < 0))
  BY <1>1, StringConstants
<1> HIDE DEF T
<1>7. d + T(k) \in 0 .. SEG - size /\ s + T(k) \in 0 .. SEG - size
  BY <1>2
<1>8. d + T(k) \in 0 .. SEG - 1 /\ s + T(k) \in 0 .. SEG - 1
  BY <1>6, <1>7
<1>9. Lands(n, mem, d + T(k), size, Read(mem, src, s + T(k), size))
  <2>1. Read(mem, src, s + T(k), size) \in [1 .. size -> Bytes]
    BY <1>8, ReadIs
  <2>2. PICK off \in 0 .. SEG - 1 : off = d + T(k)
    BY <1>8
  <2>3. PICK v \in [1 .. size -> Bytes] : v = Read(mem, src, s + T(k), size)
    BY <2>1
  <2>4. WrittenAs(n, mem, off, v)
    BY <1>4, <2>2, <2>3, Zenon
  <2>5. Lands(n, mem, off, size, v)
    BY <2>4, WrittenIs
  <2> QED BY <2>2, <2>3, <2>5, Zenon
<1>10. \A j \in 0 .. size - 1 : d + T(k) + j \in 0 .. SEG /\ s + T(k) + j \in 0 .. SEG
  BY <1>6, <1>7
\* The bytes of this round are the ones read in it.
<1>11. \A j \in 0 .. size - 1 : n["es"][d + T(k) + j] = mem[src][s + T(k) + j]
  <2> TAKE j \in 0 .. size - 1
  <2>1. PICK o \in 0 .. SEG : o = d + T(k) + j
    BY <1>10
  <2>2. o \in d + T(k) .. d + T(k) + size - 1 /\ o - (d + T(k)) + 1 = j + 1 /\ j + 1 \in 1 .. size
    BY <1>6, <2>1
  <2>3. n["es"][o] = Read(mem, src, s + T(k), size)[o - (d + T(k)) + 1]
    BY <1>9, <2>2 DEF Lands
  <2>4. @ = Read(mem, src, s + T(k), size)[j + 1]
    BY <2>2
  <2>5. @ = mem[src][s + T(k) + (j + 1) - 1]
    BY <2>2 DEF Read
  <2>6. s + T(k) + (j + 1) - 1 = s + T(k) + j
    BY <1>6
  <2> QED BY <2>1, <2>3, <2>4, <2>5, <2>6
\* The others are as they were.
<1>12. \A o \in 0 .. SEG : ~(o \in d + T(k) .. d + T(k) + size - 1) => n["es"][o] = mem["es"][o]
  BY <1>9 DEF Lands
<1>13. \A o \in 0 .. SEG : (\A i \in 0 .. k : ~(o \in d + T(i) .. d + T(i) + size - 1)) =>
                              n["es"][o] = old["es"][o]
  <2>1. k \in 0 .. k /\ 0 .. k - 1 \subseteq 0 .. k
    OBVIOUS
  <2> QED BY <1>3, <1>12, <2>1
\* An earlier round's place is not this one's.
<1>14. \A i \in 0 .. k - 1 : \A j \in 0 .. size - 1 :
         /\ d + T(i) + j \in 0 .. SEG /\ s + T(i) + j \in 0 .. SEG
         /\ ~(d + T(i) + j \in d + T(k) .. d + T(k) + size - 1)
  <2> TAKE i \in 0 .. k - 1
  <2> TAKE j \in 0 .. size - 1
  <2>1. i \in Nat /\ i \in 0 .. k /\ i < k /\ T(i) \in Int
    BY <1>1
  <2>2. d + T(i) \in 0 .. SEG - size /\ s + T(i) \in 0 .. SEG - size
    BY <1>2, <2>1
  <2>3. w > 0 => T(i) + size <= T(k)
    BY <1>1, <2>1
  <2>4. w < 0 => T(k) + size <= T(i)
    BY <1>1, <2>1
  <2> QED BY <1>6, <2>1, <2>2, <2>3, <2>4
\* Of a copy that runs over nothing it is still to read: nothing it has read.
<1>15. ahead /\ apart >= size =>
         \A i \in 0 .. k : \A j \in 0 .. size - 1 :
            n["es"][s + T(i) + j] = mem["es"][s + T(i) + j]
  <2> SUFFICES ASSUME ahead, apart >= size, NEW i \in 0 .. k, NEW j \in 0 .. size - 1
               PROVE  n["es"][s + T(i) + j] = mem["es"][s + T(i) + j]
    OBVIOUS
  <2>1. i \in Nat /\ T(i) \in Int /\ (i = k \/ i < k)
    BY <1>1
  <2>2. s + T(i) \in 0 .. SEG - size
    BY <1>2
  <2>3. w > 0 => T(i) <= T(k) /\ d - s >= size
    BY <1>1, <1>6, <2>1
  <2>4. w < 0 => T(k) <= T(i) /\ s - d >= size
    BY <1>1, <1>6, <2>1
  <2>5. s + T(i) + j \in 0 .. SEG /\ ~(s + T(i) + j \in d + T(k) .. d + T(k) + size - 1)
    BY <1>6, <2>1, <2>2, <2>3, <2>4
  <2> QED BY <1>12, <2>5
\* One that is not ahead of itself reads nothing it has written.
<1>16. ~ahead => \A j \in 0 .. size - 1 : mem[src][s + T(k) + j] = old[src][s + T(k) + j]
  <2> SUFFICES ASSUME ~ahead, NEW j \in 0 .. size - 1
               PROVE  mem[src][s + T(k) + j] = old[src][s + T(k) + j]
    OBVIOUS
  <2>1. CASE src = "ds"
    BY <1>3, <2>1
  <2>2. CASE src = "es"
    <3>1. w < 0 => s - d <= 0
      BY <2>2
    <3>2. w > 0 => d - s <= 0
      BY <1>6, <2>2
    <3>3. ASSUME NEW i \in 0 .. k - 1 PROVE ~(s + T(k) + j \in d + T(i) .. d + T(i) + size - 1)
      <4>1. i \in Nat /\ i < k /\ T(i) \in Int
        BY <1>1
      <4>2. w > 0 => T(i) + size <= T(k)
        BY <1>1, <4>1
      <4>3. w < 0 => T(k) + size <= T(i)
        BY <1>1, <4>1
      <4> QED BY <1>6, <3>1, <3>2, <4>1, <4>2, <4>3
    <3> QED BY <1>3, <1>10, <2>2, <3>3
  <2> QED BY <2>1, <2>2 DEF Segs
<1>17. ~ahead \/ apart >= size =>
         \A i \in 0 .. k : \A j \in 0 .. size - 1 :
            n["es"][d + T(i) + j] = (IF ahead THEN n ELSE old)[src][s + T(i) + j]
  <2> SUFFICES ASSUME ~ahead \/ apart >= size, NEW i \in 0 .. k, NEW j \in 0 .. size - 1
               PROVE  n["es"][d + T(i) + j] = (IF ahead THEN n ELSE old)[src][s + T(i) + j]
    OBVIOUS
  <2>1. ahead => src = "es" /\ apart >= size
    OBVIOUS
  <2> HIDE DEF ahead, apart
  <2>2. CASE i = k
    <3>1. n["es"][d + T(i) + j] = mem[src][s + T(i) + j]
      BY <1>11, <2>2
    <3> QED BY <1>15, <1>16, <2>1, <2>2, <3>1
  <2>3. CASE i \in 0 .. k - 1
    <3>1. n["es"][d + T(i) + j] = mem["es"][d + T(i) + j]
      BY <1>12, <1>14, <2>3
    <3>2. mem["es"][d + T(i) + j] = (IF ahead THEN mem ELSE old)[src][s + T(i) + j]
      BY <1>3, <2>3
    <3> QED BY <1>15, <2>1, <3>1, <3>2
  <2> QED BY <2>2, <2>3
<1> QED BY <1>3, <1>9, <1>13, <1>17 DEF Lands

\* An array of n values is a sequence of them, and the other way about.
LEMMA ArrayIsSeq ==
  ASSUME NEW n \in Nat, NEW S
  PROVE  /\ \A f \in [1 .. n -> S] : f \in Seq(S) /\ Len(f) = n
         /\ \A f \in Seq(S) : Len(f) = n => f \in [1 .. n -> S]
<1>1. \A f \in [1 .. n -> S] : f \in Seq(S) /\ DOMAIN f = 1 .. n
  BY SeqDef
<1>2. \A f \in Seq(S) : f \in [1 .. Len(f) -> S] /\ Len(f) \in Nat /\ DOMAIN f = 1 .. Len(f)
  BY LenProperties
<1>3. \A i \in Nat : 1 .. i = 1 .. n => i = n
  OBVIOUS
<1> QED BY <1>1, <1>2, <1>3

\* The bytes an accumulator has left are its own.
LEMMA AxStays ==
  ASSUME NEW ax \in [1 .. 2 -> Bytes], NEW size \in {1, 2}, NEW v \in [1 .. size -> Bytes]
  PROVE  v \o SubSeq(ax, size + 1, 2) \in [1 .. 2 -> Bytes]
<1>1. ax \in Seq(Bytes) /\ Len(ax) = 2 /\ v \in Seq(Bytes) /\ Len(v) = size
  <2>1. 2 \in Nat /\ size \in Nat
    OBVIOUS
  <2> QED BY <2>1, ArrayIsSeq
<1>2. PICK t : t = SubSeq(ax, size + 1, 2)
  OBVIOUS
<1>3. t \in Seq(Bytes) /\ Len(t) = 2 - size
  <2>1. CASE size = 1
    BY <1>1, <1>2, <2>1
  <2>2. CASE size = 2
    BY <1>1, <1>2, <2>2
  <2> QED BY <2>1, <2>2
<1>4. v \o t \in Seq(Bytes) /\ Len(v \o t) = 2
  BY <1>1, <1>3
<1>5. v \o t \in [1 .. 2 -> Bytes]
  BY <1>4, ArrayIsSeq
<1> QED BY <1>2, <1>5

\* Where x is after reg of m moved one value on.
StepFits(m, reg, size, x) ==
  LET way == IF m.df THEN -size ELSE size
  IN  /\ x \in StrRegisters
      /\ reg = "si" => x.si = (m.si + way) % SEG /\ x.di = m.di
      /\ reg = "di" => x.di = (m.di + way) % SEG /\ x.si = m.si
      /\ x.cx = m.cx /\ x.ax = m.ax /\ x.df = m.df /\ x.zf = m.zf

\* A register moves one value on, and nothing else of the registers changes.
LEMMA StepIs ==
  ASSUME NEW m \in StrRegisters, NEW reg \in {"si", "di"}, NEW size \in {1, 2}
  PROVE  StepFits(m, reg, size, StrStep(m, reg, size))
<1>1. \A v \in Int : v % SEG \in 0 .. SEG - 1
  BY StringConstants
<1>2. m.si + (IF m.df THEN -size ELSE size) \in Int /\ m.di + (IF m.df THEN -size ELSE size) \in Int
  BY StringConstants DEF StrRegisters
<1>3. CASE reg = "si"
  BY <1>1, <1>2, <1>3 DEF StrStep, StrRegisters, StepFits
<1>4. CASE reg = "di"
  BY <1>1, <1>2, <1>4 DEF StrStep, StrRegisters, StepFits
<1> QED BY <1>3, <1>4

\* What a round does to the registers and to memory, by its instruction.
RoundFits(m, mem, op, size, src, n, nem) ==
  LET way == IF m.df THEN -size ELSE size
  IN  /\ n \in StrRegisters /\ nem \in StrMemories
      /\ n.cx = m.cx /\ n.df = m.df
      /\ op # "lods" => n.ax = m.ax
      /\ op \in {"movs", "cmps"} => n.si = (m.si + way) % SEG
      /\ op \in {"movs", "cmps", "scas"} => n.di = (m.di + way) % SEG
      /\ op = "movs" => WrittenAs(nem, mem, m.di, Read(mem, src, m.si, size))
      /\ op \in {"cmps", "scas"} => nem = mem
      /\ op = "cmps" => n.zf = (Read(mem, src, m.si, size) = Read(mem, "es", m.di, size))
      /\ op = "scas" => n.zf = (SubSeq(m.ax, 1, size) = Read(mem, "es", m.di, size))

LEMMA RoundIs ==
  ASSUME NEW m \in StrRegisters, NEW mem \in StrMemories, NEW op \in StrOps, NEW size \in {1, 2},
         NEW src \in Segs, NEW x, x = Round(m, mem, op, size, src)
  PROVE  RoundFits(m, mem, op, size, src, x[1], x[2])
<1>1. m.si \in 0 .. SEG - 1 /\ m.di \in 0 .. SEG - 1 /\ m.ax \in [1 .. 2 -> Bytes] /\ "es" \in Segs
  BY DEF StrRegisters, Segs
<1>2. PICK from \in [1 .. size -> Bytes] : from = Read(mem, src, m.si, size)
  BY <1>1, ReadIs
<1>3. PICK to \in [1 .. size -> Bytes] : to = Read(mem, "es", m.di, size)
  BY <1>1, ReadIs
<1>4. PICK acc : acc = SubSeq(m.ax, 1, size)
  OBVIOUS
<1>5. acc \in [1 .. size -> Bytes]
  <2>1. m.ax \in Seq(Bytes) /\ Len(m.ax) = 2
    BY <1>1, ArrayIsSeq
  <2>2. acc \in Seq(Bytes) /\ Len(acc) = size
    BY <1>4, <2>1
  <2> QED BY <2>2
<1>6. ASSUME NEW n \in StrRegisters
      PROVE  LET y == Both(n, size)
                 way == IF n.df THEN -size ELSE size
             IN  /\ y \in StrRegisters /\ y.cx = n.cx /\ y.ax = n.ax /\ y.df = n.df /\ y.zf = n.zf
                 /\ y.si = (n.si + way) % SEG /\ y.di = (n.di + way) % SEG
  <2>1. PICK t : t = StrStep(n, "si", size) /\ StepFits(n, "si", size, t)
    BY StepIs
  <2>2. /\ t.si = (n.si + IF n.df THEN -size ELSE size) % SEG /\ t.di = n.di
        /\ t.cx = n.cx /\ t.ax = n.ax /\ t.df = n.df /\ t.zf = n.zf
    BY <2>1 DEF StepFits
  <2>3. PICK y : y = StrStep(t, "di", size) /\ StepFits(t, "di", size, y)
    BY <2>1, StepIs DEF StepFits
  <2>4. /\ y \in StrRegisters /\ y.di = (t.di + IF t.df THEN -size ELSE size) % SEG /\ y.si = t.si
        /\ y.cx = t.cx /\ y.ax = t.ax /\ y.df = t.df /\ y.zf = t.zf
    BY <2>3 DEF StepFits
  <2>5. Both(n, size) = y
    BY <2>1, <2>3 DEF Both
  <2> QED BY <2>2, <2>4, <2>5
<1>7. ASSUME NEW a, NEW b
      PROVE  LET y == Compared(m, a, b)
             IN  /\ y \in StrRegisters /\ y.zf = (a = b)
                 /\ y.cx = m.cx /\ y.ax = m.ax /\ y.df = m.df /\ y.si = m.si /\ y.di = m.di
  <2>1. (a = b) \in BOOLEAN /\ (Number(a) < Number(b)) \in BOOLEAN
    OBVIOUS
  <2> QED BY <2>1 DEF Compared, StrRegisters
<1>8. ASSUME NEW off \in 0 .. SEG - 1, NEW v \in [1 .. size -> Bytes]
      PROVE  Written(mem, "es", off, v) \in StrMemories
  <2>1. PICK n : n = Written(mem, "es", off, v)
    OBVIOUS
  <2>2. Lands(n, mem, off, size, v)
    BY <2>1, WrittenIs DEF WrittenAs
  <2> QED BY <2>1, <2>2 DEF Lands
<1>9. CASE op = "movs"
  <2>1. x = <<Both(m, size), Written(mem, "es", m.di, from)>>
    BY <1>2, <1>9 DEF Round
  <2>2. x[1] = Both(m, size) /\ x[2] = Written(mem, "es", m.di, from)
    BY <2>1
  <2> QED BY <1>1, <1>2, <1>6, <1>8, <1>9, <2>2 DEF RoundFits, WrittenAs
<1>10. CASE op = "stos"
  <2>1. x = <<StrStep(m, "di", size), Written(mem, "es", m.di, acc)>>
    BY <1>4, <1>10 DEF Round
  <2>2. x[1] = StrStep(m, "di", size) /\ x[2] = Written(mem, "es", m.di, acc)
    BY <2>1
  <2> QED BY <1>1, <1>5, <1>8, <1>10, <2>2, StepIs DEF RoundFits, StepFits
<1>11. CASE op = "lods"
  <2>1. PICK n : n = [m EXCEPT !.ax = from \o SubSeq(@, size + 1, 2)]
    OBVIOUS
  <2>2. x = <<StrStep(n, "si", size), mem>>
    BY <1>2, <1>11, <2>1 DEF Round
  <2>3. x[1] = StrStep(n, "si", size) /\ x[2] = mem
    BY <2>2
  <2>4. from \o SubSeq(m.ax, size + 1, 2) \in [1 .. 2 -> Bytes]
    BY <1>1, AxStays
  <2>5. n \in StrRegisters /\ n.cx = m.cx /\ n.df = m.df
    BY <2>1, <2>4 DEF StrRegisters
  <2> QED BY <1>11, <2>3, <2>5, StepIs DEF RoundFits, StepFits
<1>12. CASE op = "cmps"
  <2>1. x = <<Both(Compared(m, from, to), size), mem>>
    BY <1>2, <1>3, <1>12 DEF Round
  <2>2. x[1] = Both(Compared(m, from, to), size) /\ x[2] = mem
    BY <2>1
  <2>3. PICK n \in StrRegisters : n = Compared(m, from, to)
    BY <1>7
  <2>4. /\ n.zf = (from = to)
        /\ n.cx = m.cx /\ n.ax = m.ax /\ n.df = m.df /\ n.si = m.si /\ n.di = m.di
    BY <1>7, <2>3
  <2> QED BY <1>2, <1>3, <1>6, <1>12, <2>2, <2>3, <2>4 DEF RoundFits
<1>13. CASE op = "scas"
  <2>1. x = <<StrStep(Compared(m, acc, to), "di", size), mem>>
    BY <1>3, <1>4, <1>13 DEF Round
  <2>2. x[1] = StrStep(Compared(m, acc, to), "di", size) /\ x[2] = mem
    BY <2>1
  <2>3. PICK n \in StrRegisters : n = Compared(m, acc, to)
    BY <1>7
  <2>4. /\ n.zf = (acc = to)
        /\ n.cx = m.cx /\ n.ax = m.ax /\ n.df = m.df /\ n.si = m.si /\ n.di = m.di
    BY <1>7, <2>3
  <2> QED BY <1>3, <1>4, <1>13, <2>2, <2>3, <2>4, StepIs DEF RoundFits, StepFits
<1> QED BY <1>9, <1>10, <1>11, <1>12, <1>13 DEF StrOps

-----------------------------------------------------------------------------

\* An offset of the segment is where it says.
LEMMA SmallRem ==
  ASSUME NEW n \in Nat \ {0}, NEW x \in 0 .. n - 1
  PROVE  x % n = x
OBVIOUS

\* Before the first instruction nothing has been promised.
LEMMA StringsBegin == StrInit(StrRegisters, StrMemories) => StrInv
<1> SUFFICES ASSUME StrInit(StrRegisters, StrMemories) PROVE StrInv
  OBVIOUS
<1>1. str = [running |-> FALSE, op |-> "none"] /\ StrTypes
  BY DEF StrInit, StrTypes
<1>2. ~(str \in Strings)
  BY <1>1 DEF Strings, StrOps
<1> QED BY <1>1, <1>2 DEF StrInv

\* What an instruction is, while it lasts.
LEMMA StrFacts ==
  ASSUME StrTypes, str \in Strings
  PROVE  /\ str.running \in BOOLEAN /\ str.op \in StrOps /\ str.size \in {1, 2}
         /\ str.rep \in Reps /\ str.src \in Segs
         /\ was.c \in StrRegisters /\ was.bytes \in StrMemories
         /\ Way \in {str.size, -str.size} /\ (was.c.df => Way < 0) /\ (~was.c.df => Way > 0)
         /\ was.c.si \in 0 .. SEG - 1 /\ was.c.di \in 0 .. SEG - 1 /\ SEG \in Nat
<1>1. was.c \in StrRegisters /\ was.bytes \in StrMemories
  BY DEF StrTypes
<1>2. str.size \in {1, 2}
  BY DEF Strings
<1>3. was.c.df \in BOOLEAN /\ was.c.si \in 0 .. SEG - 1 /\ was.c.di \in 0 .. SEG - 1
  BY <1>1 DEF StrRegisters
<1>4. Way \in {str.size, -str.size} /\ (was.c.df => Way < 0) /\ (~was.c.df => Way > 0)
  BY <1>2, <1>3 DEF Way
<1> QED BY <1>1, <1>2, <1>3, <1>4, StringConstants DEF Strings

\* The next instruction has done nothing yet.
LEMMA BeginKeeps == StrInv /\ Begin => StrInv'
<1> SUFFICES ASSUME StrInv, Begin PROVE StrInv'
  OBVIOUS
<1>1. PICK ps \in OpPrefixes, op \in StrOps, size \in {1, 2} :
        LET p == Prefixed(ps, c)
        IN  /\ c' = [c EXCEPT !.override = p.override]
            /\ str' = [running |-> ~(p.rep # "no" /\ c.cx = 0), op |-> op, size |-> size,
                       rep |-> p.rep, src |-> SegFor(c', "ds"), asked |-> ps]
  BY DEF Begin
<1>2. PICK p \in [override : Segs \cup {"no"}, rep : Reps] : p = Prefixed(ps, c)
  BY PrefixedIs
<1>3. /\ c' = [c EXCEPT !.override = p.override]
      /\ str' = [running |-> ~(p.rep # "no" /\ c.cx = 0), op |-> op, size |-> size,
                 rep |-> p.rep, src |-> SegFor(c', "ds"), asked |-> ps]
      /\ was' = [c |-> c, bytes |-> bytes] /\ bytes' = bytes
  BY <1>1, <1>2 DEF Begin
<1>4. c \in StrRegisters /\ bytes \in StrMemories
  BY DEF StrInv, StrTypes
<1>5. /\ c' \in StrRegisters /\ c'.override = p.override
      /\ c'.si = c.si /\ c'.di = c.di /\ c'.cx = c.cx /\ c'.ax = c.ax /\ c'.df = c.df
  BY <1>2, <1>3, <1>4 DEF StrRegisters
<1>6. c'.override \in Segs \cup {"no"} /\ p.rep \in Reps
  BY <1>2, <1>5
<1>7. SegFor(c', "ds") \in Segs
  BY <1>6 DEF SegFor, Segs
<1>8. str' \in Strings
  BY <1>3, <1>6, <1>7 DEF Strings
<1>9. StrTypes'
  BY <1>3, <1>4, <1>5, <1>8 DEF StrTypes
<1>10. /\ str'.rep = p.rep /\ str'.asked = ps /\ str'.src = SegFor(c', "ds") /\ str'.size = size
       /\ str'.running = ~(p.rep # "no" /\ c.cx = 0) /\ was'.c = c /\ was'.bytes = bytes
       /\ str'.op = op
  BY <1>3
<1>11. c.cx \in Nat /\ c.si \in 0 .. SEG - 1 /\ c.di \in 0 .. SEG - 1
  BY <1>4 DEF StrRegisters
<1>12. RoundsDone' = 0
  <2>1. CASE p.rep = "no"
    <3>1. str'.running
      BY <1>10, <2>1
    <3> QED BY <1>10, <2>1, <3>1 DEF RoundsDone
  <2>2. CASE p.rep # "no"
    <3>1. was'.c.cx - c'.cx = 0
      BY <1>5, <1>10, <1>11
    <3> QED BY <1>10, <2>2, <3>1 DEF RoundsDone
  <2> QED BY <2>1, <2>2
<1>13. str'.src = Source'
  <2> DEFINE places == {i \in DOMAIN ps : ps[i] \in Segs}
             named == ps[CHOOSE i \in places : \A j \in places : j <= i]
  <2>1. p.override = IF places = {} THEN "no" ELSE named
    BY <1>2, PrefixedIs
  <2>2. Source' = IF places = {} THEN "ds" ELSE named
    BY <1>10 DEF Source
  <2>3. CASE places = {}
    BY <1>5, <1>10, <2>1, <2>2, <2>3 DEF SegFor
  <2>4. CASE places # {}
    <3>1. \A i \in places : ps[i] # "no"
      BY DEF Segs
    <3>2. PICK n \in Nat : DOMAIN ps = 1 .. n
      BY StringConstants
    <3>3. places \in SUBSET (1 .. n)
      BY <3>2
    <3>4. \E i \in places : \A j \in places : j <= i
      BY <2>4, <3>2, <3>3, LastPlace
    <3>5. (CHOOSE i \in places : \A j \in places : j <= i) \in places
      BY <3>4
    <3>6. named # "no"
      BY <3>1, <3>5
    <3> HIDE DEF named, places
    <3> QED BY <1>5, <1>10, <2>1, <2>2, <2>4, <3>6 DEF SegFor
  <2> QED BY <2>3, <2>4
<1>14. Way' \in Int
  BY <1>9, <1>8, <1>10 DEF Way
<1>15. Nth("si", RoundsDone)' = c.si /\ Nth("di", RoundsDone)' = c.di
  BY <1>10, <1>11, <1>12, <1>14 DEF Nth
<1>16. c.si % SEG = c.si /\ c.di % SEG = c.di
  BY <1>11, StringConstants, SmallRem
<1>17. CountsKept'
  <2>1. (str.running /\ str.rep # "no" => c.cx > 0)'
    <3> SUFFICES ASSUME str'.running, str'.rep # "no" PROVE c'.cx > 0
      OBVIOUS
    <3>1. ~(p.rep # "no" /\ c.cx = 0)
      BY <1>10, Zenon
    <3>2. c.cx # 0
      BY <1>10, <3>1
    <3> QED BY <1>5, <1>11, <3>2
  <2> QED BY <1>5, <1>10, <1>12, <1>13, <1>15, <1>16, <2>1 DEF CountsKept
<1>18. CopiesSoFar'
  <2>1. \A s, d, w, src : CopyHolds(bytes, bytes, s, d, size, w, src, 0)
    BY DEF CopyHolds
  <2> QED BY <1>3, <1>10, <1>12, <2>1 DEF CopiesSoFar
<1>19. ScansSoFar'
  BY <1>12 DEF ScansSoFar
<1> QED BY <1>9, <1>17, <1>18, <1>19 DEF StrInv

\* One more round.
LEMMA RepeatKeeps == StrInv /\ Repeat => StrInv'
<1> SUFFICES ASSUME StrInv, Repeat PROVE StrInv'
  OBVIOUS
<1>1. str \in Strings
  BY DEF StrInv, StrTypes, Repeat
<1>2. StrTypes /\ CountsKept /\ CopiesSoFar /\ ScansSoFar
  BY <1>1 DEF StrInv
<1>3. /\ str.running \in BOOLEAN /\ str.op \in StrOps /\ str.size \in {1, 2}
      /\ str.rep \in Reps /\ str.src \in Segs
      /\ was.c \in StrRegisters /\ was.bytes \in StrMemories
      /\ Way \in {str.size, -str.size} /\ (was.c.df => Way < 0) /\ (~was.c.df => Way > 0)
      /\ was.c.si \in 0 .. SEG - 1 /\ was.c.di \in 0 .. SEG - 1 /\ SEG \in Nat
  BY <1>1, <1>2, StrFacts
<1>4. c \in StrRegisters /\ bytes \in StrMemories
  BY <1>2 DEF StrTypes
<1>5. PICK x : x = Round(c, bytes, str.op, str.size, str.src)
  OBVIOUS
<1>6. PICK n, nem : n = x[1] /\ nem = x[2]
  OBVIOUS
<1>7. RoundFits(c, bytes, str.op, str.size, str.src, n, nem)
  BY <1>3, <1>4, <1>5, <1>6, RoundIs
<1>8. PICK m : m = IF str.rep = "no" THEN n ELSE [n EXCEPT !.cx = @ - 1]
  OBVIOUS
<1>9. /\ c' = m /\ bytes' = nem /\ was' = was
      /\ str' = [str EXCEPT !.running = ~(str.rep = "no" \/ m.cx = 0 \/ OnFlag(m))]
  BY <1>5, <1>6, <1>8 DEF Repeat
<1>10. str.running
  BY DEF Repeat
<1>11. /\ n \in StrRegisters /\ nem \in StrMemories /\ n.cx = c.cx /\ n.df = c.df
       /\ str.op # "lods" => n.ax = c.ax
  BY <1>7 DEF RoundFits
<1>12. c.cx \in Nat /\ (str.rep # "no" => c.cx - 1 \in Nat)
  BY <1>2, <1>4, <1>10 DEF StrRegisters, CountsKept
<1>13. /\ m \in StrRegisters
       /\ m.si = n.si /\ m.di = n.di /\ m.ax = n.ax /\ m.df = n.df /\ m.zf = n.zf
       /\ m.cx = IF str.rep = "no" THEN n.cx ELSE n.cx - 1
  <2>1. CASE str.rep = "no"
    BY <1>8, <1>11, <2>1
  <2>2. CASE str.rep # "no"
    BY <1>8, <1>11, <1>12, <2>2 DEF StrRegisters
  <2> QED BY <2>1, <2>2
<1>14. /\ str' \in Strings
       /\ str'.op = str.op /\ str'.size = str.size /\ str'.rep = str.rep /\ str'.src = str.src
       /\ str'.asked = str.asked
       /\ str'.running <=> ~(str.rep = "no" \/ m.cx = 0 \/ OnFlag(m))
  <2>1. PICK b \in BOOLEAN : b = ~(str.rep = "no" \/ m.cx = 0 \/ OnFlag(m))
    OBVIOUS
  <2>2. str' = [str EXCEPT !.running = b]
    BY <1>9, <2>1
  <2>3. str' \in Strings /\ str'.running = b
    BY <1>1, <2>2 DEF Strings
  <2>4. /\ str'.op = str.op /\ str'.size = str.size /\ str'.rep = str.rep /\ str'.src = str.src
        /\ str'.asked = str.asked
    BY <1>1, <2>2 DEF Strings
  <2> QED BY <2>1, <2>3, <2>4
<1>15. StrTypes'
  BY <1>2, <1>9, <1>11, <1>13, <1>14 DEF StrTypes
<1>16. PICK k \in Nat : k = RoundsDone
  BY <1>2 DEF CountsKept
<1>17. RoundsDone' = k + 1
  <2>1. CASE str.rep = "no"
    <3>1. ~str'.running
      BY <1>14, <2>1
    <3>2. k = 0
      BY <1>10, <1>16, <2>1 DEF RoundsDone
    <3> QED BY <1>14, <2>1, <3>1, <3>2 DEF RoundsDone
  <2>2. CASE str.rep # "no"
    <3>1. RoundsDone' = was.c.cx - m.cx /\ k = was.c.cx - c.cx
      BY <1>9, <1>14, <1>16, <2>2 DEF RoundsDone
    <3>2. was.c.cx \in Nat
      BY <1>3 DEF StrRegisters
    <3> QED BY <1>11, <1>12, <1>13, <2>2, <3>1, <3>2
  <2> QED BY <2>1, <2>2
<1>18. Way' = Way /\ Source' = Source
  BY <1>9, <1>14 DEF Way, Source
<1>19. \A i : Nth("si", i)' = Nth("si", i) /\ Nth("di", i)' = Nth("di", i)
  BY <1>9, <1>18 DEF Nth
<1>20. \A i : Nth("si", i) = was.c.si + i * Way /\ Nth("di", i) = was.c.di + i * Way
  BY DEF Nth
<1>21. /\ SoFar("si")' => SoFar("si") /\ \A i \in 0 .. k : Nth("si", i) \in 0 .. SEG - str.size
       /\ SoFar("di")' => SoFar("di") /\ \A i \in 0 .. k : Nth("di", i) \in 0 .. SEG - str.size
  <2>1. 0 .. RoundsDone' - 1 = 0 .. k /\ 0 .. RoundsDone - 1 \subseteq 0 .. k /\ k \in 0 .. k
    BY <1>16, <1>17
  <2> QED BY <1>14, <1>19, <2>1 DEF SoFar
\* Where the registers were, when no value has wrapped.
<1>22. /\ str.op \in {"movs", "cmps"} /\ SoFar("si")' => c.si = Nth("si", k)
       /\ str.op \in {"movs", "cmps", "scas"} /\ SoFar("di")' => c.di = Nth("di", k)
  <2>1. \A v \in 0 .. SEG - str.size : v % SEG = v
    <3>1. \A v \in 0 .. SEG - str.size : v \in 0 .. SEG - 1
      BY <1>3
    <3> QED BY <3>1, StringConstants, SmallRem
  <2>2. k \in 0 .. k
    OBVIOUS
  <2>3. ASSUME str.op \in {"movs", "cmps"}, SoFar("si")' PROVE c.si = Nth("si", k)
    <3>1. Nth("si", k) \in 0 .. SEG - str.size
      BY <1>21, <2>2, <2>3
    <3> QED BY <1>2, <1>16, <1>21, <2>1, <2>3, <3>1 DEF CountsKept
  <2>4. ASSUME str.op \in {"movs", "cmps", "scas"}, SoFar("di")' PROVE c.di = Nth("di", k)
    <3>1. Nth("di", k) \in 0 .. SEG - str.size
      BY <1>21, <2>2, <2>4
    <3> QED BY <1>2, <1>16, <1>21, <2>1, <2>4, <3>1 DEF CountsKept
  <2> QED BY <2>3, <2>4
<1>23. CountsKept'
  <2>1. (IF c.df THEN -str.size ELSE str.size) = Way
    BY <1>2 DEF CountsKept, Way
  <2>2. Nth("si", k + 1) = Nth("si", k) + Way /\ Nth("di", k + 1) = Nth("di", k) + Way
    <3>1. (k + 1) * Way = k * Way + Way /\ k * Way \in Int /\ Way \in Int
      BY <1>3, Strides
    <3> QED BY <1>3, <1>20, <3>1
  <2>3. ASSUME str.op \in {"movs", "cmps"}, SoFar("si")' PROVE m.si = Nth("si", k + 1) % SEG
    BY <1>7, <1>13, <1>22, <2>1, <2>2, <2>3 DEF RoundFits
  <2>4. ASSUME str.op \in {"movs", "cmps", "scas"}, SoFar("di")' PROVE m.di = Nth("di", k + 1) % SEG
    BY <1>7, <1>13, <1>22, <2>1, <2>2, <2>4 DEF RoundFits
  <2>5. str'.running /\ str.rep # "no" => m.cx > 0
    <3>1. m.cx \in Nat
      BY <1>13 DEF StrRegisters
    <3>2. str'.running => m.cx # 0
      BY <1>14
    <3> QED BY <3>1, <3>2
  <2>6. Nth("si", RoundsDone)' = Nth("si", k + 1) /\ Nth("di", RoundsDone)' = Nth("di", k + 1)
    BY <1>9, <1>17, <1>18 DEF Nth
  <2>7. /\ RoundsDone' \in Nat /\ str'.src = Source' /\ m.df = was.c.df
        /\ str.op # "lods" => m.ax = was.c.ax
    BY <1>2, <1>11, <1>13, <1>14, <1>17, <1>18 DEF CountsKept
  <2> QED BY <1>9, <1>14, <2>3, <2>4, <2>5, <2>6, <2>7 DEF CountsKept
<1>24. CopiesSoFar'
  <2> SUFFICES ASSUME str.op = "movs", SoFar("si")', SoFar("di")'
               PROVE  CopyHolds(nem, was.bytes, was.c.si, was.c.di, str.size, Way, Source, k + 1)
    BY <1>9, <1>14, <1>17, <1>18 DEF CopiesSoFar
  <2>1. CopyHolds(bytes, was.bytes, was.c.si, was.c.di, str.size, Way, Source, k)
    BY <1>2, <1>16, <1>21 DEF CopiesSoFar
  <2>2. c.si = was.c.si + k * Way /\ c.di = was.c.di + k * Way
    BY <1>20, <1>22
  <2>3. WrittenAs(nem, bytes, was.c.di + k * Way,
                  Read(bytes, Source, was.c.si + k * Way, str.size))
    BY <1>2, <1>7, <2>2 DEF RoundFits, CountsKept
  <2>4. \A i \in 0 .. k : /\ was.c.si + i * Way \in 0 .. SEG - str.size
                          /\ was.c.di + i * Way \in 0 .. SEG - str.size
    BY <1>20, <1>21
  <2>5. was.c.si \in Int /\ was.c.di \in Int /\ Source \in Segs
    BY <1>2, <1>3 DEF CountsKept
  <2>6. PICK s \in Int, d \in Int : s = was.c.si /\ d = was.c.di
    BY <2>5
  <2>7. PICK old \in StrMemories, src \in Segs, size \in {1, 2} :
           old = was.bytes /\ src = Source /\ size = str.size
    BY <1>3, <2>5
  <2>8. PICK w \in {size, -size} : w = Way
    BY <1>3, <2>7
  <2>9. /\ CopyHolds(bytes, old, s, d, size, w, src, k)
        /\ WrittenAs(nem, bytes, d + k * w, Read(bytes, src, s + k * w, size))
    BY <2>1, <2>3, <2>6, <2>7, <2>8
  <2>10. \A i \in 0 .. k : s + i * w \in 0 .. SEG - size /\ d + i * w \in 0 .. SEG - size
    BY <2>4, <2>6, <2>7, <2>8
  <2>11. CopyHolds(nem, old, s, d, size, w, src, k + 1)
    BY <1>4, <2>9, <2>10, CopyOn
  <2> QED BY <2>6, <2>7, <2>8, <2>11
<1>25. ScansSoFar'
  <2> SUFFICES ASSUME str.op \in {"scas", "cmps"}, SoFar("si")', SoFar("di")'
               PROVE  /\ str.rep # "no" => \A i \in 0 .. k : Ends(i)' => i = k /\ ~str'.running
                      /\ str.rep # "no" /\ ~str'.running => m.cx = 0 \/ Ends(k)'
                      /\ m.zf = (Ends(k)' = (str.rep = "repne"))
    <3>1. k + 1 - 1 = k /\ Ends(RoundsDone - 1)' = Ends(k)'
      BY <1>17 DEF Ends, Nth
    <3> QED BY <1>9, <1>14, <1>17, <3>1 DEF ScansSoFar
  <2>1. nem = bytes
    BY <1>7 DEF RoundFits
  <2>2. \A i : Ends(i)' = Ends(i)
    BY <1>9, <1>14, <1>18, <1>19, <2>1 DEF Ends
  <2>3. str.rep # "no" => \A i \in 0 .. k - 1 : ~Ends(i)
    BY <1>2, <1>10, <1>16, <1>21 DEF ScansSoFar
  <2>4. PICK a, b : /\ Ends(k) = ((a = b) = (str.rep = "repne"))
                    /\ m.zf = (a = b)
    <3> DEFINE a == IF str.op = "scas" THEN SubSeq(was.c.ax, 1, str.size)
                    ELSE Read(bytes, Source, Nth("si", k), str.size)
               b == Read(bytes, "es", Nth("di", k), str.size)
    <3>1. Ends(k) = ((a = b) = (str.rep = "repne"))
      BY DEF Ends
    <3>2. m.zf = (a = b)
      <4>1. b = Read(bytes, "es", c.di, str.size)
        BY <1>22
      <4>2. CASE str.op = "scas"
        <5>1. a = SubSeq(c.ax, 1, str.size)
          BY <1>2, <4>2 DEF CountsKept
        <5> QED BY <1>7, <1>13, <4>1, <4>2, <5>1 DEF RoundFits
      <4>3. CASE str.op = "cmps"
        <5>1. a = Read(bytes, str.src, c.si, str.size)
          BY <1>2, <1>22, <4>3 DEF CountsKept
        <5> QED BY <1>7, <1>13, <4>1, <4>3, <5>1 DEF RoundFits
      <4> QED BY <4>2, <4>3
    <3> QED BY <3>1, <3>2
  <2>5. PICK e \in BOOLEAN, r_ \in BOOLEAN : e = (a = b) /\ r_ = (str.rep = "repne")
    OBVIOUS
  <2>6. Ends(k) = (e = r_) /\ m.zf = e
    BY <2>4, <2>5
  <2>7. OnFlag(m) <=> Ends(k)
    BY <2>5, <2>6 DEF OnFlag
  <2>8. m.zf = (Ends(k) = (str.rep = "repne"))
    BY <2>5, <2>6
  <2>9. Ends(k) => ~str'.running
    BY <1>14, <2>7
  <2>10. str.rep # "no" /\ ~str'.running => m.cx = 0 \/ Ends(k)
    BY <1>14, <2>7
  <2>11. \A i \in 0 .. k : i = k \/ i \in 0 .. k - 1
    OBVIOUS
  <2> QED BY <2>2, <2>3, <2>8, <2>9, <2>10, <2>11
<1> QED BY <1>15, <1>23, <1>24, <1>25 DEF StrInv

LEMMA StrInvKeeps == StrInv /\ [Begin \/ Repeat]_strVars => StrInv'
<1> SUFFICES ASSUME StrInv, UNCHANGED strVars PROVE StrInv'
  BY BeginKeeps, RepeatKeeps
<1>1. c' = c /\ bytes' = bytes /\ str' = str /\ was' = was
  BY DEF strVars
<1>2. RoundsDone' = RoundsDone /\ Way' = Way /\ Source' = Source
  BY <1>1 DEF RoundsDone, Way, Source
<1>3. \A reg, i : Nth(reg, i)' = Nth(reg, i)
  BY <1>1, <1>2 DEF Nth
<1>4. \A i : Ends(i)' = Ends(i)
  BY <1>1, <1>2, <1>3 DEF Ends
<1>5. \A reg : SoFar(reg)' = SoFar(reg)
  BY <1>1, <1>2, <1>3 DEF SoFar
<1>6. StrTypes' = StrTypes
  BY <1>1 DEF StrTypes
<1>7. CountsKept => CountsKept'
  <2>1. Nth("si", RoundsDone)' = Nth("si", RoundsDone) /\ Nth("di", RoundsDone)' = Nth("di", RoundsDone)
    BY <1>1, <1>2 DEF Nth
  <2> QED BY <1>1, <1>2, <1>5, <2>1 DEF CountsKept
<1>8. CopiesSoFar => CopiesSoFar'
  BY <1>1, <1>2, <1>5 DEF CopiesSoFar
<1>9. ScansSoFar => ScansSoFar'
  <2>1. Ends(RoundsDone - 1)' = Ends(RoundsDone - 1)
    BY <1>1, <1>2 DEF Ends, Nth
  <2> QED BY <1>1, <1>2, <1>4, <1>5, <2>1 DEF ScansSoFar
<1> QED BY <1>1, <1>6, <1>7, <1>8, <1>9 DEF StrInv

\* An instruction that is over has done its rounds.
LEMMA OverIsRight == StrInv => StringsRight
<1> SUFFICES ASSUME StrInv PROVE StringsRight
  OBVIOUS
<1>1. CASE str \notin Strings
  <2>1. str.op = "none"
    BY <1>1 DEF StrInv, StrTypes
  <2> QED BY <2>1 DEF StringsRight, CopiesRight, ScansStopAtFirst, Over
<1>2. ASSUME str \in Strings, ~str.running PROVE StringsRight
  <2>1. CountsKept /\ CopiesSoFar /\ ScansSoFar /\ StrTypes
    BY <1>2 DEF StrInv
  <2>2. Times = RoundsDone /\ RoundsDone \in Nat
    BY <1>2, <2>1 DEF Times, RoundsDone, CountsKept
  <2>3. \A reg : Straight(reg) => SoFar(reg)
    BY <2>2 DEF Straight, SoFar
  <2>4. CopiesRight
    <3> SUFFICES ASSUME str.op = "movs", Straight("si"), Straight("di")
                 PROVE  LET apart == IF was.c.df THEN was.c.si - was.c.di ELSE was.c.di - was.c.si
                            ahead == Source = "es" /\ apart > 0
                            seen == IF ahead THEN bytes ELSE was.bytes
                            touched == UNION {Nth("di", i) .. Nth("di", i) + str.size - 1 : i \in 0 .. Times - 1}
                        IN  /\ ~ahead \/ apart >= str.size =>
                               \A i \in 0 .. Times - 1 :
                                  Read(bytes, "es", Nth("di", i), str.size) = Read(seen, Source, Nth("si", i), str.size)
                            /\ bytes["ds"] = was.bytes["ds"]
                            /\ \A o \in 0 .. SEG : o \notin touched => bytes["es"][o] = was.bytes["es"][o]
      BY DEF CopiesRight, Over
    <3> DEFINE apart == IF was.c.df THEN was.c.si - was.c.di ELSE was.c.di - was.c.si
               ahead == Source = "es" /\ apart > 0
               seen == IF ahead THEN bytes ELSE was.bytes
               touched == UNION {Nth("di", i) .. Nth("di", i) + str.size - 1 : i \in 0 .. Times - 1}
    <3>1. CopyHolds(bytes, was.bytes, was.c.si, was.c.di, str.size, Way, Source, Times)
      BY <2>1, <2>2, <2>3 DEF CopiesSoFar
    <3>2. /\ (was.c.df => Way < 0) /\ (~was.c.df => Way > 0) /\ was.c.df \in BOOLEAN
          /\ Way \in Int /\ str.size \in {1, 2}
      BY <1>2, <2>1, StrFacts DEF StrRegisters
    <3>3. Way < 0 <=> was.c.df
      BY <3>2
    <3>4. \A i : Nth("si", i) = was.c.si + i * Way /\ Nth("di", i) = was.c.di + i * Way
      BY DEF Nth
    <3>5. bytes["ds"] = was.bytes["ds"]
      BY <3>1 DEF CopyHolds
    <3>6. \A o \in 0 .. SEG : o \notin touched => bytes["es"][o] = was.bytes["es"][o]
      <4>1. \A o \in 0 .. SEG : o \notin touched =>
              \A i \in 0 .. Times - 1 : ~InNth(was.c.di, i, Way, str.size, o)
        BY <3>4 DEF InNth
      <4> QED BY <3>1, <4>1 DEF CopyHolds
    <3>7. ASSUME ~ahead \/ apart >= str.size, NEW i \in 0 .. Times - 1
          PROVE  Read(bytes, "es", Nth("di", i), str.size) = Read(seen, Source, Nth("si", i), str.size)
      <4>1. apart = IF Way < 0 THEN was.c.si - was.c.di ELSE was.c.di - was.c.si
        BY <3>3
      <4>2. \A j \in 0 .. str.size - 1 :
              bytes["es"][Nth("di", i) + j] = seen[Source][Nth("si", i) + j]
        BY <3>1, <3>4, <3>7, <4>1 DEF CopyHolds
      <4>3. \A j \in 1 .. str.size : bytes["es"][Nth("di", i) + j - 1] = seen[Source][Nth("si", i) + j - 1]
        <5> TAKE j \in 1 .. str.size
        <5>1. Nth("di", i) \in Int /\ Nth("si", i) \in Int
          <6>1. i \in 0 .. RoundsDone - 1
            BY <2>2
          <6>2. Nth("di", i) \in 0 .. SEG - str.size /\ Nth("si", i) \in 0 .. SEG - str.size
            BY <2>3, <6>1 DEF SoFar
          <6> QED BY <6>2
        <5>2. j - 1 \in 0 .. str.size - 1
          BY <3>2
        <5>3. Nth("di", i) + j - 1 = Nth("di", i) + (j - 1) /\ Nth("si", i) + j - 1 = Nth("si", i) + (j - 1)
          BY <5>1, <3>2
        <5> HIDE DEF seen
        <5> QED BY <4>2, <5>2, <5>3
      <4> HIDE DEF seen
      <4> QED BY <4>3 DEF Read
    <3> QED BY <3>5, <3>6, <3>7
  <2>5. ScansStopAtFirst
    <3> SUFFICES ASSUME str.op \in {"scas", "cmps"}, Straight("si"), Straight("di"), Times > 0
                 PROVE  /\ str.rep # "no" => \A i \in 0 .. Times - 2 : ~Ends(i)
                        /\ str.rep # "no" => c.cx = 0 \/ Ends(Times - 1)
                        /\ c.zf = (Ends(Times - 1) = (str.rep = "repne"))
                        /\ c.di = (was.c.di + Times * Way) % SEG
      BY DEF ScansStopAtFirst, Over, Ends
    <3>1. /\ str.rep # "no" => \A i \in 0 .. Times - 1 : Ends(i) => i = Times - 1
          /\ str.rep # "no" => c.cx = 0 \/ Ends(Times - 1)
          /\ c.zf = (Ends(Times - 1) = (str.rep = "repne"))
      BY <1>2, <2>1, <2>2, <2>3 DEF ScansSoFar
    <3>2. \A i \in 0 .. Times - 2 : i \in 0 .. Times - 1 /\ i # Times - 1
      BY <2>2
    <3>3. c.di = (was.c.di + Times * Way) % SEG
      BY <2>1, <2>2, <2>3 DEF CountsKept, Nth
    <3> QED BY <3>1, <3>2, <3>3
  <2> QED BY <2>4, <2>5 DEF StringsRight
<1>3. CASE str.running
  BY <1>3 DEF StringsRight, CopiesRight, ScansStopAtFirst, Over
<1> QED BY <1>1, <1>2, <1>3

\* cpu.c: a string instruction, whatever it repeats and whichever way it goes, does
\* what one value after another of it comes to: a copy of what was there or, run over
\* itself, of what it had copied; a scan or comparison to the first value that ends it.
\* For segments of any size, registers of any values and counts of any length.
THEOREM StringsAlwaysRight == StringSpecification => []StringsRight
<1> QED BY StringsBegin, StrInvKeeps, OverIsRight, PTL DEF StringSpecification

-----------------------------------------------------------------------------
(* Calls and the stack.  A word of the stack is named by its depth, the     *)
(* words from where SP was at the start down to it; a guest that keeps the  *)
(* stack within its segment never goes deeper than the ring is long, so a   *)
(* depth is a word of its own.                                              *)

RegNames == {"ax", "cx", "dx", "bx", "sp", "bp", "si", "di"}
Files == {f \in [RegNames -> Int] : f["sp"] \in Ring /\ f["bp"] \in Ring}
StackMachines == [r : Files, s : [Ring -> Int]]
Contexts == [at : [cs : Int, ip : Int], sp : Ring, bp : Ring, flags : Int]
SavedThings == [what : {"all"}, held : Files, sp : Ring]
                 \cup [what : {"flags"}, held : Int, sp : Ring]
Frames == [far : BOOLEAN, args : Nat, iret : BOOLEAN, entered : BOOLEAN,
           pushed : Seq(SavedThings), caller : Contexts]

StackSpecification == StackInit(Files) /\ [][StackNext]_stackVars

Depth(b, x) == (b - x) % WORDS
AtDepth(s, b, d) == s[(b - d) % WORDS]

\* The calls fr not returned from and the context of the last one, cur: where the
\* first began, and where each is: now, or as it last called.
BaseOf(fr) == fr[1].caller.sp
Context(fr, cur, k) == IF k = Len(fr) THEN cur ELSE fr[k + 1].caller
Current == [at |-> at, sp |-> r["sp"], bp |-> r["bp"], flags |-> flags]

\* How deep the word is that a call returns to.
Bottom(f, b) == Depth(b, f.caller.sp) + f.args + (IF f.iret THEN 1 ELSE 0)
                  + (IF f.far THEN 2 ELSE 1)
BottomOf(fr, k) == IF k = 1 THEN 0 ELSE Bottom(fr[k], BaseOf(fr))

\* What a return takes is what the call left.
ReturnHolds(f, h, b, s) ==
  LET to == Bottom(f, b)
  IN  /\ AtDepth(s, b, to) = f.caller.at.ip
      /\ f.far => AtDepth(s, b, to - 1) = f.caller.at.cs
      /\ ~f.far => h.at.cs = f.caller.at.cs /\ ~f.iret
      /\ f.iret => AtDepth(s, b, to - 2) = f.caller.flags

\* What a procedure has saved lies one on another, over its frame.
Size(e) == IF e.what = "all" THEN 8 ELSE 1
SavedHolds(e, h, to, b, s) ==
  LET d == Depth(b, e.sp)
  IN  /\ to + 1 <= d /\ d + Size(e) <= Depth(b, h.sp)
      /\ e.what = "flags" => AtDepth(s, b, d + 1) = e.held
      /\ e.what = "all" => /\ e.held["sp"] = e.sp /\ e.held["bp"] = h.bp
                           /\ \A i \in 1 .. 8 : AtDepth(s, b, d + i) = e.held[Order[i]]
OnTop(b, e, next) == Depth(b, next.sp) = Depth(b, e.sp) + Size(e)
Beneath(b, e, next) == Depth(b, e.sp) + Size(e) <= Depth(b, next.sp)
PushedHolds(q, h, to, b, s) ==
  /\ \A j \in 1 .. Len(q) : SavedHolds(q[j], h, to, b, s)
  /\ \A i, j \in 1 .. Len(q) : i < j => Beneath(b, q[i], q[j]) /\ (j = i + 1 => OnTop(b, q[i], q[j]))
  /\ q # <<>> => OnTop(b, q[Len(q)], h)
WorkHolds(f, h, to, b, s) ==
  /\ to <= Depth(b, h.sp)
  /\ ~f.entered => f.pushed = <<>> /\ Depth(b, h.sp) = to /\ h.bp = f.caller.bp
  /\ f.entered => /\ Depth(b, h.bp) = to + 1 /\ to + 1 <= Depth(b, h.sp)
                  /\ AtDepth(s, b, to + 1) = f.caller.bp
                  /\ PushedHolds(f.pushed, h, to, b, s)

StackHolds(fr, cur, s) ==
  /\ fr \in Seq(Frames) /\ fr # <<>> /\ cur \in Contexts /\ s \in [Ring -> Int]
  /\ \A k \in 2 .. Len(fr) : ReturnHolds(fr[k], Context(fr, cur, k), BaseOf(fr), s)
  /\ \A k \in 1 .. Len(fr) :
        WorkHolds(fr[k], Context(fr, cur, k), BottomOf(fr, k), BaseOf(fr), s)
  /\ \A j, k \in 1 .. Len(fr) :
        j <= k => Depth(BaseOf(fr), Context(fr, cur, j).sp) <= Depth(BaseOf(fr), Context(fr, cur, k).sp)
StackInv == r \in Files /\ StackHolds(frames, Current, stack) /\ ReturnsToItsCaller

SameUpTo(s, t, b, top) == \A d \in 0 .. top : AtDepth(s, b, d) = AtDepth(t, b, d)
SameCall(f, g) == f.far = g.far /\ f.args = g.args /\ f.iret = g.iret /\ f.caller = g.caller

\* The ring's words are the numbers under their count.
LEMMA RingIs == WORDS \in Nat /\ WORDS > 0 /\ Ring = 0 .. WORDS - 1
BY CpuStackConstants DEF Ring

\* Once around the ring.
LEMMA AroundOnce ==
    ASSUME NEW a \in -WORDS .. 2 * WORDS - 1
    PROVE  a % WORDS = IF a < 0 THEN a + WORDS ELSE IF a < WORDS THEN a ELSE a - WORDS
<1> USE RingIs
<1>1. CASE a < 0
  <2>1. a + WORDS \in 0 .. WORDS - 1
    BY <1>1
  <2> QED BY <1>1, <2>1
<1>2. CASE a >= 0 /\ a < WORDS
  BY <1>2
<1>3. CASE a >= WORDS
  BY <1>3
<1> QED BY <1>1, <1>2, <1>3

\* The depth of a word names it, and words further down are as much deeper.
LEMMA Deeper ==
    ASSUME NEW b \in Ring, NEW x \in Ring
    PROVE  /\ Depth(b, x) \in 0 .. WORDS - 1
           /\ (b - Depth(b, x)) % WORDS = x
           /\ \A n \in Int : Depth(b, x) + n \in 0 .. WORDS - 1 =>
                 /\ (x - n) % WORDS \in Ring
                 /\ Depth(b, (x - n) % WORDS) = Depth(b, x) + n
                 /\ (x - n) % WORDS = (b - (Depth(b, x) + n)) % WORDS
<1> USE RingIs
<1>1. Depth(b, x) = IF b < x THEN b - x + WORDS ELSE b - x
  <2>1. b - x \in -WORDS .. 2 * WORDS - 1
    OBVIOUS
  <2> QED BY <2>1, AroundOnce DEF Depth
<1>2. (b - Depth(b, x)) % WORDS = x
  <2>1. b - Depth(b, x) \in -WORDS .. 2 * WORDS - 1
    BY <1>1
  <2> QED BY <1>1, <2>1, AroundOnce
<1>3. ASSUME NEW n \in Int, Depth(b, x) + n \in 0 .. WORDS - 1
      PROVE  /\ (x - n) % WORDS \in Ring
             /\ Depth(b, (x - n) % WORDS) = Depth(b, x) + n
             /\ (x - n) % WORDS = (b - (Depth(b, x) + n)) % WORDS
  <2>1. x - n \in -WORDS .. 2 * WORDS - 1 /\ b - (Depth(b, x) + n) \in -WORDS .. 2 * WORDS - 1
    BY <1>1, <1>3
  <2>2. (x - n) % WORDS = IF x - n < 0 THEN x - n + WORDS ELSE IF x - n < WORDS THEN x - n ELSE x - n - WORDS
    BY <2>1, AroundOnce
  <2>3. (b - (Depth(b, x) + n)) % WORDS =
           IF b - (Depth(b, x) + n) < 0 THEN b - (Depth(b, x) + n) + WORDS ELSE b - (Depth(b, x) + n)
    BY <1>3, <2>1, AroundOnce
  <2>4. (x - n) % WORDS = (b - (Depth(b, x) + n)) % WORDS /\ (x - n) % WORDS \in Ring
    BY <1>1, <1>3, <2>2, <2>3
  <2>5. Depth(b, (x - n) % WORDS) = Depth(b, x) + n
    <3> DEFINE y == (x - n) % WORDS
    <3> HIDE DEF y
    <3>1. y \in Ring /\ y = (b - (Depth(b, x) + n)) % WORDS
      BY <2>4 DEF y
    <3>2. b - y \in -WORDS .. 2 * WORDS - 1
      BY <3>1
    <3>3. Depth(b, y) = IF b - y < 0 THEN b - y + WORDS ELSE b - y
      BY <3>1, <3>2, AroundOnce DEF Depth
    <3>4. Depth(b, y) = Depth(b, x) + n
      BY <3>1, <3>3, <2>3, <1>3
    <3> QED BY <3>4 DEF y
  <2> QED BY <2>4, <2>5
<1> QED BY <1>1, <1>2, <1>3

\* A depth is a number within the ring.
LEMMA DepthIsNat ==
    ASSUME NEW b \in Ring, NEW x \in Ring
    PROVE  Depth(b, x) \in 0 .. WORDS - 1 /\ Depth(b, x) \in Nat /\ Depth(b, x) < WORDS
<1>1. Depth(b, x) \in 0 .. WORDS - 1
  BY Deeper
<1> QED BY <1>1, RingIs

\* A word of the ring is at one depth.
LEMMA DepthNames ==
    ASSUME NEW b \in Ring, NEW x \in Ring, NEW y \in Ring, Depth(b, x) = Depth(b, y)
    PROVE  x = y
BY Deeper

\* The start is no depth.
LEMMA DepthOfStart ==
    ASSUME NEW b \in Ring
    PROVE  Depth(b, b) = 0
<1>1. b - b \in -WORDS .. 2 * WORDS - 1 /\ b - b = 0 /\ 0 < WORDS
  BY RingIs
<1>2. (b - b) % WORDS = 0
  BY <1>1, AroundOnce
<1> QED BY <1>2 DEF Depth

\* What is on the stack at a place over SP.
LEMMA WordIsAtDepth ==
    ASSUME NEW m \in StackMachines, NEW b \in Ring, NEW i \in Nat, i <= Depth(b, m.r["sp"])
    PROVE  /\ Word(m, i) = AtDepth(m.s, b, Depth(b, m.r["sp"]) - i)
           /\ Word(m, i) \in Int
           /\ Drop(m, i) \in StackMachines
           /\ Drop(m, i).s = m.s
           /\ Depth(b, Drop(m, i).r["sp"]) = Depth(b, m.r["sp"]) - i
           /\ \A x \in RegNames : x # "sp" => Drop(m, i).r[x] = m.r[x]
<1> DEFINE x == m.r["sp"]
<1>1. x \in Ring /\ m.r \in [RegNames -> Int] /\ m.s \in [Ring -> Int] /\ m.r["bp"] \in Ring
      /\ m = [r |-> m.r, s |-> m.s]
  BY DEF StackMachines, Files
<1>2. Depth(b, x) \in 0 .. WORDS - 1
  BY <1>1, Deeper
<1>3. Depth(b, x) + (-i) \in 0 .. WORDS - 1 /\ x - (-i) = x + i /\ Depth(b, x) + (-i) = Depth(b, x) - i
  <2> HIDE DEF x
  <2>1. x \in Int /\ Depth(b, x) \in Int /\ i \in Int /\ i <= Depth(b, x)
    BY <1>1, <1>2, RingIs DEF x
  <2> QED BY <1>2, <2>1, RingIs
<1>4. /\ (x + i) % WORDS \in Ring
      /\ Depth(b, (x + i) % WORDS) = Depth(b, x) - i
      /\ (x + i) % WORDS = (b - (Depth(b, x) - i)) % WORDS
  <2>1. -i \in Int
    OBVIOUS
  <2> HIDE DEF x
  <2> QED BY <1>1, <1>3, <2>1, Deeper
<1>5. Drop(m, i) = [r |-> [m.r EXCEPT !["sp"] = (x + i) % WORDS], s |-> m.s]
  BY <1>1 DEF Drop
<1>6. (x + i) % WORDS \in Int
  BY <1>4, RingIs
<1>7. [m.r EXCEPT !["sp"] = (x + i) % WORDS] \in Files
  BY <1>1, <1>4, <1>6 DEF Files, RegNames
<1> QED BY <1>1, <1>4, <1>5, <1>7 DEF Word, AtDepth, StackMachines, RegNames

\* How far one word is below another.
LEMMA DepthBetween ==
    ASSUME NEW b \in Ring, NEW x \in Ring, NEW y \in Ring
    PROVE  Depth(x, y) = IF Depth(b, y) >= Depth(b, x) THEN Depth(b, y) - Depth(b, x)
                         ELSE Depth(b, y) - Depth(b, x) + WORDS
<1>1. ASSUME NEW u \in Ring, NEW v \in Ring
      PROVE  Depth(u, v) = IF u < v THEN u - v + WORDS ELSE u - v
  <2>1. u - v \in -WORDS .. 2 * WORDS - 1
    BY RingIs
  <2> QED BY <2>1, RingIs, AroundOnce DEF Depth
<1>2. /\ Depth(x, y) = IF x < y THEN x - y + WORDS ELSE x - y
      /\ Depth(b, y) = IF b < y THEN b - y + WORDS ELSE b - y
      /\ Depth(b, x) = IF b < x THEN b - x + WORDS ELSE b - x
  BY <1>1
<1> QED BY <1>2, RingIs

\* Pushed on m, words vs lie under what was there, and SP is at the last of them.
PushedOn(n, m, vs, b) ==
  /\ n \in StackMachines
  /\ Depth(b, n.r["sp"]) = Depth(b, m.r["sp"]) + Len(vs)
  /\ \A x \in RegNames : x # "sp" => n.r[x] = m.r[x]
  /\ \A d \in 0 .. WORDS - 1 :
        AtDepth(n.s, b, d) =
           IF d \in Depth(b, m.r["sp"]) + 1 .. Depth(b, m.r["sp"]) + Len(vs)
           THEN vs[d - Depth(b, m.r["sp"])] ELSE AtDepth(m.s, b, d)

\* What pushing words leaves: they are under SP, and nothing over it is touched.
LEMMA PushingIsOnTop ==
    ASSUME NEW m \in StackMachines, NEW b \in Ring, NEW vs \in Seq(Int),
           Depth(b, m.r["sp"]) + Len(vs) < WORDS
    PROVE  PushedOn(PushAll(m, vs), m, vs, b)
<1> DEFINE x == m.r["sp"]
           d0 == Depth(b, x)
           n == PushAll(m, vs)
           s2 == [a \in Ring |-> LET k == (x - a) % WORDS
                                 IN  IF k \in 1 .. Len(vs) THEN vs[k] ELSE m.s[a]]
<1>1. x \in Ring /\ m.r \in [RegNames -> Int] /\ m.s \in [Ring -> Int] /\ m.r["bp"] \in Ring
  BY DEF StackMachines, Files
<1>2. d0 \in 0 .. WORDS - 1 /\ Len(vs) \in Nat /\ d0 + Len(vs) \in 0 .. WORDS - 1
  <2>1. d0 \in 0 .. WORDS - 1
    BY <1>1, Deeper
  <2>2. Len(vs) \in Nat /\ d0 + Len(vs) < WORDS
    OBVIOUS
  <2> HIDE DEF d0
  <2> QED BY <2>1, <2>2, RingIs
<1>3. /\ (x - Len(vs)) % WORDS \in Ring
      /\ Depth(b, (x - Len(vs)) % WORDS) = d0 + Len(vs)
  <2>1. Len(vs) \in Int
    BY <1>2
  <2> HIDE DEF x
  <2> QED BY <1>1, <1>2, <2>1, Deeper
<1>4. n = [r |-> [m.r EXCEPT !["sp"] = (x - Len(vs)) % WORDS], s |-> s2]
  BY <1>1 DEF PushAll, RegNames
<1>5. s2 \in [Ring -> Int]
  <2>1. ASSUME NEW a \in Ring, NEW k, k \in 1 .. Len(vs)  PROVE vs[k] \in Int
    BY <2>1
  <2> QED BY <1>1, <2>1
<1>6. [m.r EXCEPT !["sp"] = (x - Len(vs)) % WORDS] \in Files
  <2>1. (x - Len(vs)) % WORDS \in Int
    BY <1>3, RingIs
  <2> QED BY <1>1, <1>3, <2>1 DEF Files, RegNames
<1>7. n \in StackMachines
  BY <1>4, <1>5, <1>6 DEF StackMachines
<1>8. ASSUME NEW d \in 0 .. WORDS - 1
      PROVE  AtDepth(n.s, b, d) = IF d \in d0 + 1 .. d0 + Len(vs) THEN vs[d - d0]
                                  ELSE AtDepth(m.s, b, d)
  <2> DEFINE a == (b - d) % WORDS
  <2>1. a \in Ring /\ Depth(b, a) = d
    <3>1. Depth(b, b) + d \in 0 .. WORDS - 1 /\ d \in Int /\ Depth(b, b) + d = d
      BY DepthOfStart
    <3> QED BY <3>1, Deeper
  <2>2. (x - a) % WORDS = IF d >= d0 THEN d - d0 ELSE d - d0 + WORDS
    <3> HIDE DEF a, x
    <3> QED BY <1>1, <2>1, DepthBetween DEF Depth, d0
  <2>3. (x - a) % WORDS \in 1 .. Len(vs) <=> d \in d0 + 1 .. d0 + Len(vs)
    <3> DEFINE k == (x - a) % WORDS
    <3> HIDE DEF d0, k
    <3>1. k = IF d >= d0 THEN d - d0 ELSE d - d0 + WORDS
      BY <2>2 DEF k
    <3>2. k \in 1 .. Len(vs) <=> d \in d0 + 1 .. d0 + Len(vs)
      BY <3>1, <1>2, RingIs
    <3> QED BY <3>2 DEF k
  <2>4. d \in d0 + 1 .. d0 + Len(vs) => (x - a) % WORDS = d - d0
    <3> HIDE DEF d0, a, x
    <3> QED BY <2>2, <1>2
  <2>5. n.s[a] = IF (x - a) % WORDS \in 1 .. Len(vs) THEN vs[(x - a) % WORDS] ELSE m.s[a]
    BY <1>4, <2>1
  <2>6. AtDepth(n.s, b, d) = n.s[a] /\ AtDepth(m.s, b, d) = m.s[a]
    BY DEF AtDepth
  <2> HIDE DEF a, x, n, d0
  <2> QED BY <2>3, <2>4, <2>5, <2>6
<1>9. \A y \in RegNames : y # "sp" => n.r[y] = m.r[y]
  BY <1>1, <1>4
<1>10. Depth(b, n.r["sp"]) = d0 + Len(vs)
  BY <1>1, <1>3, <1>4 DEF RegNames
<1> HIDE DEF n
<1> QED BY <1>7, <1>8, <1>9, <1>10 DEF n, PushedOn

\* Moving SP down leaves the words as they were.
LEMMA RoomIsOnTop ==
    ASSUME NEW m \in StackMachines, NEW b \in Ring, NEW i \in Nat,
           Depth(b, m.r["sp"]) + i < WORDS
    PROVE  /\ Drop(m, -i) \in StackMachines
           /\ Drop(m, -i).s = m.s
           /\ Depth(b, Drop(m, -i).r["sp"]) = Depth(b, m.r["sp"]) + i
           /\ \A x \in RegNames : x # "sp" => Drop(m, -i).r[x] = m.r[x]
<1> DEFINE x == m.r["sp"]
<1>1. x \in Ring /\ m.r \in [RegNames -> Int] /\ m.s \in [Ring -> Int] /\ m.r["bp"] \in Ring
      /\ m = [r |-> m.r, s |-> m.s]
  BY DEF StackMachines, Files
<1>2. Depth(b, x) \in 0 .. WORDS - 1
  BY <1>1, Deeper
<1>3. /\ (x - i) % WORDS \in Ring
      /\ Depth(b, (x - i) % WORDS) = Depth(b, x) + i
  <2>1. i \in Int /\ Depth(b, x) + i \in 0 .. WORDS - 1
    BY <1>2, RingIs
  <2> HIDE DEF x
  <2> QED BY <1>1, <2>1, Deeper
<1>4. x + (-i) = x - i
  BY <1>1, RingIs
<1>5. Drop(m, -i) = [r |-> [m.r EXCEPT !["sp"] = (x - i) % WORDS], s |-> m.s]
  BY <1>1, <1>4 DEF Drop
<1>6. (x - i) % WORDS \in Int
  BY <1>3, RingIs
<1>7. [m.r EXCEPT !["sp"] = (x - i) % WORDS] \in Files
  BY <1>1, <1>3, <1>6 DEF Files, RegNames
<1> QED BY <1>1, <1>3, <1>5, <1>7 DEF StackMachines, RegNames

\* ENTER: BP is kept on top of what was there, and BP then shows where.
LEMMA EnterIsOnTop ==
    ASSUME NEW m \in StackMachines, NEW b \in Ring, NEW alloc \in Nat, NEW level \in Nat,
           Depth(b, m.r["sp"]) + 1 + alloc + level < WORDS
    PROVE  LET n == Enter(m, alloc, level)
               d0 == Depth(b, m.r["sp"])
           IN  /\ n \in StackMachines
               /\ Depth(b, n.r["bp"]) = d0 + 1 /\ d0 + 1 <= Depth(b, n.r["sp"])
               /\ AtDepth(n.s, b, d0 + 1) = m.r["bp"]
               /\ \A d \in 0 .. d0 : AtDepth(n.s, b, d) = AtDepth(m.s, b, d)
<1> DEFINE d0 == Depth(b, m.r["sp"])
           first == Push(m, m.r["bp"])
           gap == ((m.r["bp"] - first.r["sp"] - 1) % WORDS) + 1
           many == IF level = 0 THEN 0 ELSE level - 1
           display == [i \in 1 .. level - 1 |->
                          first.s[(m.r["bp"] - 1 - ((i - 1) % gap)) % WORDS]]
           full == PushAll(first, display)
           based == [full EXCEPT !.r["bp"] = first.r["sp"]]
<1>1. m.r \in [RegNames -> Int] /\ m.r["sp"] \in Ring /\ m.r["bp"] \in Ring /\ m.r["bp"] \in Int
  BY RingIs DEF StackMachines, Files
<1>2. d0 \in 0 .. WORDS - 1
  BY <1>1, Deeper
<1> DEFINE one == <<m.r["bp"]>>
<1>3. one \in Seq(Int) /\ Len(one) = 1 /\ one[1] = m.r["bp"] /\ d0 + 1 < WORDS
  <2>1. one \in Seq(Int) /\ Len(one) = 1 /\ one[1] = m.r["bp"]
    BY <1>1
  <2>2. d0 + 1 + alloc + level < WORDS
    OBVIOUS
  <2> HIDE DEF d0
  <2> QED BY <1>2, <2>1, <2>2, RingIs
<1>4. /\ first \in StackMachines
      /\ Depth(b, first.r["sp"]) = d0 + 1
      /\ \A d \in 0 .. WORDS - 1 :
            AtDepth(first.s, b, d) = IF d \in d0 + 1 .. d0 + 1 THEN one[d - d0]
                                     ELSE AtDepth(m.s, b, d)
  <2>1. first = PushAll(m, one)
    BY DEF Push
  <2> HIDE DEF first, one
  <2>2. Depth(b, m.r["sp"]) + Len(one) < WORDS
    BY <1>3
  <2>3. one \in Seq(Int)
    BY <1>3
  <2>4. PushedOn(first, m, one, b)
    BY <2>1, <2>2, <2>3, PushingIsOnTop
  <2> QED BY <1>3, <2>4 DEF PushedOn
<1>5. first.r["sp"] \in Ring /\ first.r["sp"] \in Int /\ first.s \in [Ring -> Int]
      /\ first.r \in [RegNames -> Int]
  <2> HIDE DEF first
  <2>1. first \in StackMachines
    BY <1>4
  <2>2. first.r["sp"] \in Ring /\ first.s \in [Ring -> Int] /\ first.r \in [RegNames -> Int]
    BY <2>1 DEF StackMachines, Files
  <2>3. Ring \subseteq Int
    BY RingIs
  <2> QED BY <2>2, <2>3
<1>6. display \in Seq(Int) /\ Len(display) = many
  <2>1. many \in Nat /\ 1 .. level - 1 = 1 .. many
    OBVIOUS
  <2>2. ASSUME NEW i \in 1 .. many
        PROVE  first.s[(m.r["bp"] - 1 - ((i - 1) % gap)) % WORDS] \in Int
    <3>1. gap \in Int /\ gap > 0
      <4> DEFINE z == m.r["bp"] - first.r["sp"] - 1
      <4>1. z \in Int
        BY <1>1, <1>5
      <4>2. z % WORDS \in 0 .. WORDS - 1
        <5> HIDE DEF z
        <5> QED BY <4>1, RingIs
      <4> QED BY <4>2
    <3>2. (i - 1) % gap \in Int
      <4> HIDE DEF gap
      <4>1. i - 1 \in Int
        BY <2>1
      <4> QED BY <3>1, <4>1
    <3>3. (m.r["bp"] - 1 - ((i - 1) % gap)) % WORDS \in Ring
      <4> DEFINE y == m.r["bp"] - 1 - ((i - 1) % gap)
      <4>1. y \in Int
        BY <3>2, <1>1
      <4> HIDE DEF y
      <4>2. y % WORDS \in Ring
        BY <4>1, RingIs
      <4> QED BY <4>2 DEF y
    <3> HIDE DEF first, gap
    <3> QED BY <1>5, <3>3
  <2> HIDE DEF first, gap, many
  <2>3. display = [i \in 1 .. many |->
                          first.s[(m.r["bp"] - 1 - ((i - 1) % gap)) % WORDS]]
    BY <2>1
  <2>4. display \in [1 .. many -> Int]
    BY <2>2, <2>3
  <2> HIDE DEF display
  <2> QED BY <2>1, <2>4
<1>7. many \in 0 .. level /\ d0 + 1 + many < WORDS /\ d0 + 1 + many + alloc < WORDS
      /\ many \in Nat
  BY <1>2, RingIs
<1>8. /\ full \in StackMachines
      /\ Depth(b, full.r["sp"]) = d0 + 1 + many
      /\ \A d \in 0 .. WORDS - 1 :
            AtDepth(full.s, b, d) = IF d \in d0 + 1 + 1 .. d0 + 1 + many THEN display[d - (d0 + 1)]
                                    ELSE AtDepth(first.s, b, d)
  <2> HIDE DEF d0, first, display, many
  <2>1. first \in StackMachines /\ display \in Seq(Int) /\ Depth(b, first.r["sp"]) + Len(display) < WORDS
    BY <1>4, <1>6, <1>7
  <2>2. PushedOn(full, first, display, b)
    BY <2>1, PushingIsOnTop
  <2> HIDE DEF full
  <2> QED BY <1>4, <1>6, <2>2 DEF PushedOn
<1>9. /\ based \in StackMachines /\ based.s = full.s
      /\ based.r["bp"] = first.r["sp"] /\ based.r["sp"] = full.r["sp"]
  <2> HIDE DEF first, full
  <2>1. full.r \in [RegNames -> Int] /\ full.r["sp"] \in Ring /\ full = [r |-> full.r, s |-> full.s]
    BY <1>8 DEF StackMachines, Files
  <2>2. based = [r |-> [full.r EXCEPT !["bp"] = first.r["sp"]], s |-> full.s]
    BY <2>1
  <2>3. [full.r EXCEPT !["bp"] = first.r["sp"]] \in Files
    BY <2>1, <1>5 DEF Files, RegNames
  <2> QED BY <1>8, <2>1, <2>2, <2>3 DEF StackMachines, RegNames
<1>10. Enter(m, alloc, level) = Drop(based, -alloc)
  BY DEF Enter
<1>11. LET n == Drop(based, -alloc)
       IN  /\ n \in StackMachines /\ n.s = based.s
           /\ Depth(b, n.r["sp"]) = d0 + 1 + many + alloc
           /\ n.r["bp"] = based.r["bp"]
  <2> HIDE DEF based, many, d0, full
  <2>1. Depth(b, based.r["sp"]) + alloc < WORDS
    BY <1>7, <1>8, <1>9
  <2> QED BY <1>8, <1>9, <2>1, RoomIsOnTop DEF RegNames
<1>12. \A d \in 0 .. d0 + 1 : d \in 0 .. WORDS - 1 /\ d \notin d0 + 1 + 1 .. d0 + 1 + many
  <2> HIDE DEF d0, many
  <2> QED BY <1>2, <1>7, RingIs
<1>13. AtDepth(full.s, b, d0 + 1) = m.r["bp"]
  <2> HIDE DEF full, first, d0, many, one
  <2>1. d0 + 1 \in 0 .. d0 + 1 /\ d0 + 1 \in d0 + 1 .. d0 + 1 /\ (d0 + 1) - d0 = 1
    BY <1>2
  <2>2. AtDepth(full.s, b, d0 + 1) = AtDepth(first.s, b, d0 + 1)
    BY <1>8, <1>12, <2>1
  <2>3. AtDepth(first.s, b, d0 + 1) = one[1]
    BY <1>4, <1>12, <2>1
  <2> QED BY <1>3, <2>2, <2>3
<1>14. ASSUME NEW d \in 0 .. d0 PROVE AtDepth(full.s, b, d) = AtDepth(m.s, b, d)
  <2> HIDE DEF full, first, d0, many, one
  <2>1. d \in 0 .. d0 + 1 /\ d \notin d0 + 1 .. d0 + 1
    BY <1>2
  <2> QED BY <1>4, <1>8, <1>12, <2>1
<1> HIDE DEF full, first, d0, many, based, one
<1>15. d0 + 1 <= d0 + 1 + many + alloc
  BY <1>2, <1>7
<1> QED BY <1>4, <1>9, <1>10, <1>11, <1>13, <1>14, <1>15 DEF d0

\* LEAVE: SP and BP are where they were before ENTER.
LEMMA LeavingIsUp ==
    ASSUME NEW m \in StackMachines, NEW b \in Ring,
           1 <= Depth(b, m.r["bp"]), AtDepth(m.s, b, Depth(b, m.r["bp"])) \in Ring
    PROVE  LET n == Leave(m)
           IN  /\ n \in StackMachines /\ n.s = m.s
               /\ Depth(b, n.r["sp"]) = Depth(b, m.r["bp"]) - 1
               /\ n.r["bp"] = AtDepth(m.s, b, Depth(b, m.r["bp"]))
<1> DEFINE at0 == Depth(b, m.r["bp"])
           up == [m EXCEPT !.r["sp"] = m.r["bp"]]
           n == [Drop(up, 1) EXCEPT !.r["bp"] = Word(up, 0)]
<1>1. /\ m.r \in [RegNames -> Int] /\ m.r["sp"] \in Ring /\ m.r["bp"] \in Ring
      /\ m.s \in [Ring -> Int] /\ m = [r |-> m.r, s |-> m.s] /\ m.r["bp"] \in Int
  BY RingIs DEF StackMachines, Files
<1>2. up = [r |-> [m.r EXCEPT !["sp"] = m.r["bp"]], s |-> m.s]
  BY <1>1
<1>3. up \in StackMachines /\ up.s = m.s /\ up.r["sp"] = m.r["bp"]
  <2>1. [m.r EXCEPT !["sp"] = m.r["bp"]] \in Files
    BY <1>1 DEF Files, RegNames
  <2> QED BY <1>1, <1>2, <2>1 DEF StackMachines, RegNames
<1>4. at0 \in 0 .. WORDS - 1
  BY <1>1, Deeper
<1>5. Word(up, 0) = AtDepth(m.s, b, at0)
  <2> HIDE DEF up
  <2>1. Depth(b, up.r["sp"]) = at0 /\ 0 \in Nat /\ 0 <= Depth(b, up.r["sp"])
    BY <1>3, <1>4
  <2>2. Word(up, 0) = AtDepth(up.s, b, Depth(b, up.r["sp"]) - 0)
    BY <1>3, <2>1, WordIsAtDepth
  <2>3. at0 - 0 = at0
    <3> HIDE DEF at0
    <3> QED BY <1>4, RingIs
  <2> QED BY <1>3, <2>1, <2>2, <2>3
<1>6. LET d == Drop(up, 1)
      IN  d \in StackMachines /\ d.s = m.s /\ Depth(b, d.r["sp"]) = at0 - 1
  <2> HIDE DEF up
  <2>1. 1 \in Nat /\ 1 <= Depth(b, up.r["sp"]) /\ Depth(b, up.r["sp"]) = at0
    BY <1>3
  <2> HIDE DEF at0
  <2> QED BY <1>3, <2>1, WordIsAtDepth
<1>7. n \in StackMachines /\ n.s = m.s /\ n.r["sp"] = Drop(up, 1).r["sp"] /\ n.r["bp"] = Word(up, 0)
  <2> DEFINE d == Drop(up, 1)
             v == Word(up, 0)
  <2>1. d \in StackMachines /\ d.s = m.s /\ v \in Ring /\ v \in Int
    BY <1>5, <1>6, RingIs
  <2> HIDE DEF d, v
  <2>2. d.r \in [RegNames -> Int] /\ d.r["sp"] \in Ring /\ d = [r |-> d.r, s |-> d.s]
    BY <2>1 DEF StackMachines, Files
  <2>3. [d EXCEPT !.r["bp"] = v] = [r |-> [d.r EXCEPT !["bp"] = v], s |-> d.s]
    BY <2>2
  <2>4. [d.r EXCEPT !["bp"] = v] \in Files
    BY <2>1, <2>2 DEF Files, RegNames
  <2>5. n = [d EXCEPT !.r["bp"] = v]
    BY DEF d, v
  <2> HIDE DEF n
  <2>6. n = [r |-> [d.r EXCEPT !["bp"] = v], s |-> d.s]
    BY <2>3, <2>5
  <2>7. n \in StackMachines /\ n.s = m.s /\ n.r["sp"] = d.r["sp"] /\ n.r["bp"] = v
    BY <2>1, <2>2, <2>4, <2>6 DEF StackMachines, RegNames
  <2> QED BY <2>7 DEF d, v
<1>8. Leave(m) = n
  BY DEF Leave
<1> HIDE DEF n, up
<1> QED BY <1>5, <1>6, <1>7, <1>8

\* Every register has a slot of its own.
LEMMA SlotsAreAll ==
    ASSUME NEW x \in RegNames
    PROVE  Slot(x) \in 1 .. 8 /\ Order[Slot(x)] = x
<1>1. \E i \in 1 .. 8 : Order[i] = x
  <2>1. /\ Order[1] = "ax" /\ Order[2] = "cx" /\ Order[3] = "dx" /\ Order[4] = "bx"
        /\ Order[5] = "sp" /\ Order[6] = "bp" /\ Order[7] = "si" /\ Order[8] = "di"
    BY DEF Order
  <2>2. 1 \in 1 .. 8 /\ 2 \in 1 .. 8 /\ 3 \in 1 .. 8 /\ 4 \in 1 .. 8 /\ 5 \in 1 .. 8
        /\ 6 \in 1 .. 8 /\ 7 \in 1 .. 8 /\ 8 \in 1 .. 8
    OBVIOUS
  <2> QED BY <2>1, <2>2, Zenon DEF RegNames
<1> QED BY <1>1, Zenon DEF Slot

\* A function on the first numbers is a sequence as long.
LEMMA ListOfNumbers ==
    ASSUME NEW n \in Nat, NEW f \in [1 .. n -> Int]
    PROVE  f \in Seq(Int) /\ Len(f) = n
OBVIOUS

\* PUSHA: the registers are under SP, SP as it was.
LEMMA SavingAllIsOnTop ==
    ASSUME NEW m \in StackMachines, NEW b \in Ring, Depth(b, m.r["sp"]) + 8 < WORDS
    PROVE  LET n == Pusha(m)
               d0 == Depth(b, m.r["sp"])
           IN  /\ n \in StackMachines
               /\ Depth(b, n.r["sp"]) = d0 + 8 /\ n.r["bp"] = m.r["bp"]
               /\ \A i \in 1 .. 8 : AtDepth(n.s, b, d0 + i) = m.r[Order[i]]
               /\ \A d \in 0 .. d0 : AtDepth(n.s, b, d) = AtDepth(m.s, b, d)
<1> DEFINE vs == [i \in 1 .. 8 |-> m.r[Order[i]]]
           d0 == Depth(b, m.r["sp"])
<1>1. m.r \in [RegNames -> Int] /\ m.r["sp"] \in Ring
  BY DEF StackMachines, Files
<1>2. \A i \in 1 .. 8 : Order[i] \in RegNames
  BY DEF Order, RegNames
<1>3. vs \in [1 .. 8 -> Int]
  BY <1>1, <1>2
<1>4. vs \in Seq(Int) /\ Len(vs) = 8
  <2> HIDE DEF vs
  <2> DEFINE n == 8
  <2>1. n \in Nat /\ vs \in [1 .. n -> Int]
    BY <1>3
  <2> HIDE DEF n
  <2>2. vs \in Seq(Int) /\ Len(vs) = n
    BY <2>1, ListOfNumbers
  <2> QED BY <2>2 DEF n
<1>5. d0 \in 0 .. WORDS - 1
  BY <1>1, Deeper
<1>6. Pusha(m) = PushAll(m, vs)
  BY DEF Pusha
<1> DEFINE n == Pusha(m)
<1>7. /\ n \in StackMachines
      /\ Depth(b, n.r["sp"]) = d0 + 8
      /\ \A x \in RegNames : x # "sp" => n.r[x] = m.r[x]
      /\ \A d \in 0 .. WORDS - 1 :
            AtDepth(n.s, b, d) = IF d \in d0 + 1 .. d0 + 8 THEN vs[d - d0] ELSE AtDepth(m.s, b, d)
  <2> HIDE DEF vs, n
  <2>1. n = PushAll(m, vs)
    BY <1>6 DEF n
  <2>2. Depth(b, m.r["sp"]) + Len(vs) < WORDS
    BY <1>4
  <2>3. vs \in Seq(Int)
    BY <1>4
  <2>4. PushedOn(n, m, vs, b)
    BY <2>1, <2>2, <2>3, PushingIsOnTop
  <2> QED BY <1>4, <2>4 DEF PushedOn
<1>8. ASSUME NEW i \in 1 .. 8 PROVE AtDepth(n.s, b, d0 + i) = m.r[Order[i]]
  <2>1. vs[i] = m.r[Order[i]]
    OBVIOUS
  <2>2. d0 + 8 < WORDS
    OBVIOUS
  <2> HIDE DEF d0, n, vs
  <2>3. d0 + i \in 0 .. WORDS - 1 /\ d0 + i \in d0 + 1 .. d0 + 8 /\ (d0 + i) - d0 = i
    BY <1>5, <2>2, RingIs
  <2> QED BY <1>7, <2>1, <2>3
<1>9. ASSUME NEW d \in 0 .. d0 PROVE AtDepth(n.s, b, d) = AtDepth(m.s, b, d)
  <2> HIDE DEF d0, n, vs
  <2>1. d \in 0 .. WORDS - 1 /\ d \notin d0 + 1 .. d0 + 8
    BY <1>5, RingIs
  <2> QED BY <1>7, <2>1
<1>10. n.r["bp"] = m.r["bp"]
  <2> HIDE DEF n
  <2> QED BY <1>7 DEF RegNames
<1> HIDE DEF n
<1> QED BY <1>7, <1>8, <1>9, <1>10 DEF n

\* POPA: the registers are what they were, SP among them.
LEMMA RestoringAll ==
    ASSUME NEW m \in StackMachines, NEW b \in Ring, NEW e \in Files,
           Depth(b, m.r["sp"]) = Depth(b, e["sp"]) + 8,
           \A i \in 1 .. 8 : AtDepth(m.s, b, Depth(b, e["sp"]) + i) = e[Order[i]]
    PROVE  Popa(m).r = e /\ Popa(m).s = m.s
<1> DEFINE d0 == Depth(b, e["sp"])
           back8 == [x \in DOMAIN m.r |-> IF x = "sp" THEN (m.r["sp"] + 8) % WORDS
                                          ELSE Word(m, 8 - Slot(x))]
<1>1. /\ m.r \in [RegNames -> Int] /\ m.r["sp"] \in Ring /\ m = [r |-> m.r, s |-> m.s]
      /\ e \in [RegNames -> Int] /\ e["sp"] \in Ring
  BY DEF StackMachines, Files
<1>2. d0 \in 0 .. WORDS - 1
  BY <1>1, Deeper
<1>3. Popa(m) = [r |-> back8, s |-> m.s]
  BY <1>1 DEF Popa
<1>4. (m.r["sp"] + 8) % WORDS = e["sp"]
  <2> DEFINE n == Drop(m, 8)
  <2>1. 8 \in Nat /\ 8 <= Depth(b, m.r["sp"]) /\ Depth(b, m.r["sp"]) - 8 = d0
    <3> HIDE DEF d0
    <3>1. Depth(b, m.r["sp"]) = d0 + 8
      BY DEF d0
    <3> QED BY <3>1, <1>2, RingIs
  <2>2. n \in StackMachines /\ Depth(b, n.r["sp"]) = d0
    BY <2>1, WordIsAtDepth
  <2>3. n.r["sp"] = (m.r["sp"] + 8) % WORDS
    BY <1>1 DEF Drop, RegNames
  <2> HIDE DEF n
  <2>4. n.r["sp"] \in Ring
    BY <2>2 DEF StackMachines, Files
  <2>5. n.r["sp"] = e["sp"]
    BY <1>1, <2>2, <2>4, DepthNames
  <2> QED BY <2>3, <2>5
<1>5. ASSUME NEW x \in RegNames, x # "sp" PROVE Word(m, 8 - Slot(x)) = e[x]
  <2> DEFINE i == Slot(x)
  <2>1. i \in 1 .. 8 /\ Order[i] = x
    BY SlotsAreAll
  <2> HIDE DEF i
  <2>2. Depth(b, m.r["sp"]) = d0 + 8
    OBVIOUS
  <2> HIDE DEF d0
  <2>3. 8 - i \in Nat /\ 8 - i <= Depth(b, m.r["sp"]) /\ Depth(b, m.r["sp"]) - (8 - i) = d0 + i
    BY <1>2, <2>1, <2>2, RingIs
  <2>4. Word(m, 8 - i) = AtDepth(m.s, b, d0 + i)
    BY <2>3, WordIsAtDepth
  <2> QED BY <2>1, <2>4 DEF i, d0
<1>6. back8 = e
  <2>1. \A x \in RegNames : back8[x] = e[x]
    BY <1>1, <1>4, <1>5
  <2>2. back8 = [x \in RegNames |-> back8[x]] /\ e = [x \in RegNames |-> e[x]]
    BY <1>1
  <2> HIDE DEF back8
  <2> QED BY <2>1, <2>2
<1> QED BY <1>3, <1>6

\* A return address lies under what the caller had.
LEMMA BottomIs ==
    ASSUME NEW f \in Frames, NEW b \in Ring
    PROVE  /\ Bottom(f, b) \in Nat /\ Depth(b, f.caller.sp) \in 0 .. WORDS - 1
           /\ Depth(b, f.caller.sp) < Bottom(f, b)
           /\ f.far => Bottom(f, b) - 1 \in 0 .. Bottom(f, b)
           /\ f.far /\ f.iret => Bottom(f, b) - 2 \in 0 .. Bottom(f, b)
           /\ Bottom(f, b) = Depth(b, f.caller.sp) + f.args + (IF f.iret THEN 1 ELSE 0)
                               + (IF f.far THEN 2 ELSE 1)
<1> DEFINE d0 == Depth(b, f.caller.sp)
<1>1. f.caller.sp \in Ring /\ f.args \in Nat /\ f.far \in BOOLEAN /\ f.iret \in BOOLEAN
  BY DEF Frames, Contexts
<1>2. d0 \in 0 .. WORDS - 1
  BY <1>1, Deeper
<1>3. Bottom(f, b) = d0 + f.args + (IF f.iret THEN 1 ELSE 0) + (IF f.far THEN 2 ELSE 1)
  BY DEF Bottom
<1> HIDE DEF d0
<1>4. d0 \in Nat
  BY <1>2, RingIs
<1>5. CASE f.far /\ f.iret
  BY <1>1, <1>2, <1>3, <1>4, <1>5 DEF d0
<1>6. CASE f.far /\ ~f.iret
  BY <1>1, <1>2, <1>3, <1>4, <1>6 DEF d0
<1>7. CASE ~f.far
  BY <1>1, <1>2, <1>3, <1>4, <1>7 DEF d0
<1> QED BY <1>5, <1>6, <1>7

\* What a return takes stays while nothing so deep is written.
LEMMA ReturnKept ==
    ASSUME NEW f \in Frames, NEW g, SameCall(f, g), NEW h, NEW h2, h2.at.cs = h.at.cs, NEW b \in Ring,
           NEW s, NEW t, NEW top \in Nat, Bottom(f, b) <= top, SameUpTo(s, t, b, top),
           ReturnHolds(f, h, b, s)
    PROVE  ReturnHolds(g, h2, b, t)
<1> DEFINE to == Bottom(f, b)
<1>1. /\ to \in 0 .. top
      /\ f.far => to - 1 \in 0 .. top
      /\ f.far /\ f.iret => to - 2 \in 0 .. top
  <2>1. /\ to \in Nat /\ to <= top
        /\ f.far => to - 1 \in 0 .. to
        /\ f.far /\ f.iret => to - 2 \in 0 .. to
    BY BottomIs
  <2> HIDE DEF to
  <2> QED BY <2>1
<1>2. Bottom(g, b) = to
  BY DEF Bottom, SameCall
<1>3. /\ AtDepth(s, b, to) = AtDepth(t, b, to)
      /\ f.far => AtDepth(s, b, to - 1) = AtDepth(t, b, to - 1)
      /\ f.far /\ f.iret => AtDepth(s, b, to - 2) = AtDepth(t, b, to - 2)
  <2> HIDE DEF to
  <2> QED BY <1>1 DEF SameUpTo
<1>4. /\ AtDepth(s, b, to) = f.caller.at.ip
      /\ f.far => AtDepth(s, b, to - 1) = f.caller.at.cs
      /\ ~f.far => h.at.cs = f.caller.at.cs /\ ~f.iret
      /\ f.iret => AtDepth(s, b, to - 2) = f.caller.flags
  BY DEF ReturnHolds
<1> HIDE DEF to
<1>5. f.iret => f.far
  BY <1>4 DEF Frames
<1>6. /\ AtDepth(t, b, to) = g.caller.at.ip
      /\ g.far => AtDepth(t, b, to - 1) = g.caller.at.cs
      /\ ~g.far => h2.at.cs = g.caller.at.cs /\ ~g.iret
      /\ g.iret => AtDepth(t, b, to - 2) = g.caller.flags
  BY <1>3, <1>4, <1>5 DEF SameCall
<1> QED BY <1>2, <1>6 DEF ReturnHolds

\* So does what was saved.
LEMMA SavedKept ==
    ASSUME NEW e \in SavedThings, NEW h, NEW h2, h2.bp = h.bp, NEW to \in Nat, NEW b \in Ring,
           NEW s, NEW t, NEW top \in Nat, Depth(b, e.sp) + Size(e) <= top, SameUpTo(s, t, b, top),
           Depth(b, e.sp) + Size(e) <= Depth(b, h2.sp),
           SavedHolds(e, h, to, b, s)
    PROVE  SavedHolds(e, h2, to, b, t)
<1> DEFINE d == Depth(b, e.sp)
<1>1. e.sp \in Ring
  BY DEF SavedThings
<1>2. d \in Nat
  BY <1>1, Deeper, RingIs
<1>3. /\ to + 1 <= d
      /\ e.what = "flags" => AtDepth(s, b, d + 1) = e.held
      /\ e.what = "all" => /\ e.held["sp"] = e.sp /\ e.held["bp"] = h.bp
                           /\ \A i \in 1 .. 8 : AtDepth(s, b, d + i) = e.held[Order[i]]
  BY DEF SavedHolds
<1> HIDE DEF d
<1>4. d + Size(e) <= top
  BY DEF d
<1>5. e.what = "flags" => d + 1 \in 0 .. top
  BY <1>2, <1>4 DEF Size
<1>6. ASSUME NEW i \in 1 .. 8, e.what = "all" PROVE d + i \in 0 .. top
  BY <1>2, <1>4, <1>6 DEF Size
<1>7. /\ to + 1 <= d
      /\ e.what = "flags" => AtDepth(t, b, d + 1) = e.held
      /\ e.what = "all" => /\ e.held["sp"] = e.sp /\ e.held["bp"] = h2.bp
                           /\ \A i \in 1 .. 8 : AtDepth(t, b, d + i) = e.held[Order[i]]
  BY <1>3, <1>5, <1>6 DEF SameUpTo
<1> QED BY <1>7 DEF SavedHolds, d

\* And all of a procedure's work.
LEMMA WorkKept ==
    ASSUME NEW f \in Frames, NEW h, NEW h2, h2.bp = h.bp, h2.sp = h.sp, NEW to \in Nat,
           NEW b \in Ring, NEW s, NEW t, NEW top \in Nat, Depth(b, h.sp) <= top,
           Depth(b, h.sp) \in Nat, SameUpTo(s, t, b, top), WorkHolds(f, h, to, b, s)
    PROVE  WorkHolds(f, h2, to, b, t)
<1> DEFINE q == f.pushed
<1>1. q \in Seq(SavedThings)
  BY DEF Frames
<1>2. CASE ~f.entered
  BY <1>2 DEF WorkHolds
<1>3. CASE f.entered
  <2>1. /\ to <= Depth(b, h.sp)
        /\ Depth(b, h.bp) = to + 1 /\ to + 1 <= Depth(b, h.sp)
        /\ AtDepth(s, b, to + 1) = f.caller.bp
        /\ PushedHolds(q, h, to, b, s)
    BY <1>3 DEF WorkHolds
  <2>2. AtDepth(t, b, to + 1) = f.caller.bp
    <3>1. to + 1 \in 0 .. top
      BY <2>1
    <3> QED BY <2>1, <3>1 DEF SameUpTo
  <2>3. ASSUME NEW j \in 1 .. Len(q) PROVE SavedHolds(q[j], h2, to, b, t)
    <3>1. q[j] \in SavedThings
      BY <1>1
    <3>2. SavedHolds(q[j], h, to, b, s)
      BY <2>1 DEF PushedHolds
    <3> DEFINE e == q[j]
    <3> HIDE DEF e
    <3>3. e \in SavedThings /\ SavedHolds(e, h, to, b, s)
      BY <3>1, <3>2 DEF e
    <3>4. Depth(b, e.sp) \in Nat /\ Size(e) \in Nat
      <4>1. e.sp \in Ring
        BY <3>3 DEF SavedThings
      <4>2. Depth(b, e.sp) \in Nat
        BY <4>1, DepthIsNat
      <4> QED BY <4>2 DEF Size
    <3>5. Depth(b, e.sp) + Size(e) <= Depth(b, h.sp)
      BY <3>3 DEF SavedHolds
    <3>6. Depth(b, e.sp) + Size(e) <= top /\ Depth(b, e.sp) + Size(e) <= Depth(b, h2.sp)
      BY <3>4, <3>5
    <3> QED BY <3>3, <3>6, SavedKept DEF e
  <2>4. q # <<>> => OnTop(b, q[Len(q)], h2)
    BY <2>1 DEF PushedHolds, OnTop
  <2>5. PushedHolds(q, h2, to, b, t)
    BY <2>1, <2>3, <2>4 DEF PushedHolds
  <2> QED BY <1>3, <2>1, <2>2, <2>5 DEF WorkHolds
<1> QED BY <1>2, <1>3 DEF Frames

\* The calls of a guest, each under the next.
LEMMA CallsAre ==
    ASSUME NEW fr, NEW cur, NEW s, StackHolds(fr, cur, s)
    PROVE  /\ Len(fr) \in Nat /\ Len(fr) >= 1 /\ BaseOf(fr) \in Ring
           /\ \A k \in 1 .. Len(fr) :
                 /\ fr[k] \in Frames /\ Context(fr, cur, k) \in Contexts
                 /\ BottomOf(fr, k) \in Nat
                 /\ Depth(BaseOf(fr), Context(fr, cur, k).sp) \in 0 .. WORDS - 1
                 /\ BottomOf(fr, k) <= Depth(BaseOf(fr), Context(fr, cur, k).sp)
           /\ \A k \in 1 .. Len(fr) - 1 :
                 /\ Context(fr, cur, k) = fr[k + 1].caller
                 /\ Depth(BaseOf(fr), Context(fr, cur, k).sp) < BottomOf(fr, Len(fr))
<1> DEFINE n == Len(fr)
           b == BaseOf(fr)
<1>1. fr \in Seq(Frames) /\ fr # <<>> /\ cur \in Contexts
  BY DEF StackHolds
<1>2. n \in Nat /\ n >= 1
  BY <1>1
<1>3. \A k \in 1 .. n : fr[k] \in Frames
  BY <1>1
<1>4. b \in Ring
  <2>1. fr[1] \in Frames
    BY <1>2, <1>3
  <2> QED BY <2>1 DEF BaseOf, Frames, Contexts
<1>5. ASSUME NEW k \in 1 .. n PROVE Context(fr, cur, k) \in Contexts
  <2>1. CASE k = n
    BY <1>1, <2>1 DEF Context
  <2>2. CASE k # n
    <3>1. k + 1 \in 1 .. n
      BY <1>2, <2>2
    <3>2. fr[k + 1] \in Frames
      BY <1>3, <3>1
    <3> QED BY <2>2, <3>2 DEF Context, Frames
  <2> QED BY <2>1, <2>2
<1>6. ASSUME NEW k \in 1 .. n
      PROVE  /\ BottomOf(fr, k) \in Nat
             /\ Depth(b, Context(fr, cur, k).sp) \in 0 .. WORDS - 1
             /\ BottomOf(fr, k) <= Depth(b, Context(fr, cur, k).sp)
  <2>1. Context(fr, cur, k).sp \in Ring
    BY <1>5 DEF Contexts
  <2>2. Depth(b, Context(fr, cur, k).sp) \in 0 .. WORDS - 1
    BY <1>4, <2>1, Deeper
  <2>3. BottomOf(fr, k) \in Nat
    BY <1>3, <1>4, BottomIs DEF BottomOf
  <2>4. WorkHolds(fr[k], Context(fr, cur, k), BottomOf(fr, k), b, s)
    BY DEF StackHolds
  <2> QED BY <2>2, <2>3, <2>4 DEF WorkHolds
<1>7. ASSUME NEW k \in 1 .. n - 1
      PROVE  /\ Context(fr, cur, k) = fr[k + 1].caller
             /\ Depth(b, Context(fr, cur, k).sp) < BottomOf(fr, n)
  <2>1. k \in 1 .. n /\ k # n /\ n - 1 \in 1 .. n /\ n \in 1 .. n /\ n # 1 /\ k <= n - 1 /\ (n - 1) + 1 = n
        /\ n - 1 # n
    <3> HIDE DEF n
    <3> QED BY <1>2
  <2>2. Context(fr, cur, k) = fr[k + 1].caller /\ Context(fr, cur, n - 1) = fr[n].caller
    BY <2>1 DEF Context
  <2>3. Depth(b, Context(fr, cur, k).sp) <= Depth(b, Context(fr, cur, n - 1).sp)
    BY <2>1 DEF StackHolds
  <2>4. Depth(b, fr[n].caller.sp) < Bottom(fr[n], b) /\ BottomOf(fr, n) = Bottom(fr[n], b)
    BY <1>3, <1>4, <2>1, BottomIs DEF BottomOf
  <2>5. Depth(b, Context(fr, cur, k).sp) \in Nat /\ Depth(b, fr[n].caller.sp) \in Nat
        /\ Bottom(fr[n], b) \in Nat
    <3>1. Depth(b, Context(fr, cur, k).sp) \in 0 .. WORDS - 1
          /\ Depth(b, Context(fr, cur, n - 1).sp) \in 0 .. WORDS - 1 /\ BottomOf(fr, n) \in Nat
      BY <2>1, <1>6
    <3> QED BY <2>2, <2>4, <3>1, RingIs
  <2> HIDE DEF n, b
  <2> QED BY <2>2, <2>3, <2>4, <2>5
<1> QED BY <1>2, <1>3, <1>4, <1>5, <1>6, <1>7

\* A step of the last call that leaves what is under its return address.
LEMMA Within ==
    ASSUME NEW fr, NEW cur, NEW s, StackHolds(fr, cur, s),
           NEW g \in Frames, SameCall(fr[Len(fr)], g),
           NEW cur2 \in Contexts, cur2.at.cs = cur.at.cs, NEW t \in [Ring -> Int],
           SameUpTo(s, t, BaseOf(fr), BottomOf(fr, Len(fr))),
           WorkHolds(g, cur2, BottomOf(fr, Len(fr)), BaseOf(fr), t)
    PROVE  StackHolds([fr EXCEPT ![Len(fr)] = g], cur2, t)
<1> DEFINE n == Len(fr)
           b == BaseOf(fr)
           top == BottomOf(fr, n)
           fr2 == [fr EXCEPT ![n] = g]
<1>1. /\ n \in Nat /\ n >= 1 /\ b \in Ring /\ n \in 1 .. n
      /\ \A k \in 1 .. n :
           /\ fr[k] \in Frames /\ Context(fr, cur, k) \in Contexts
           /\ BottomOf(fr, k) \in Nat
           /\ Depth(b, Context(fr, cur, k).sp) \in 0 .. WORDS - 1
           /\ BottomOf(fr, k) <= Depth(b, Context(fr, cur, k).sp)
      /\ \A k \in 1 .. n - 1 :
           /\ Context(fr, cur, k) = fr[k + 1].caller
           /\ Depth(b, Context(fr, cur, k).sp) < top
  BY CallsAre
<1>2. fr \in Seq(Frames) /\ fr # <<>>
  BY DEF StackHolds
<1>3. /\ fr2 \in Seq(Frames) /\ Len(fr2) = n /\ fr2[n] = g
      /\ \A k \in 1 .. n : k # n => fr2[k] = fr[k]
  <2> HIDE DEF n
  <2> QED BY <1>1, <1>2 DEF n
<1>4. \A k \in 1 .. n : SameCall(fr[k], fr2[k])
  <2> HIDE DEF fr2
  <2> QED BY <1>3 DEF SameCall
<1> HIDE DEF fr2
<1>5. BaseOf(fr2) = b
  BY <1>1, <1>4 DEF BaseOf, SameCall
<1>6. \A k \in 1 .. n : BottomOf(fr2, k) = BottomOf(fr, k)
  BY <1>4, <1>5 DEF BottomOf, Bottom, SameCall
<1>7. ASSUME NEW k \in 1 .. n - 1 PROVE Context(fr2, cur2, k) = Context(fr, cur, k)
  <2>1. k # n /\ k + 1 \in 1 .. n
    BY <1>1
  <2> QED BY <1>3, <1>4, <2>1 DEF Context, SameCall
<1>8. Context(fr2, cur2, n) = cur2 /\ Context(fr, cur, n) = cur
  BY <1>3 DEF Context
<1>9. top \in Nat
  BY <1>1
<1>10. ASSUME NEW k \in 2 .. n
       PROVE  ReturnHolds(fr2[k], Context(fr2, cur2, k), b, t)
  <2>1. ReturnHolds(fr[k], Context(fr, cur, k), b, s)
    BY DEF StackHolds
  <2>2. k \in 1 .. n /\ fr[k] \in Frames /\ Bottom(fr[k], b) = BottomOf(fr, k)
    BY <1>1 DEF BottomOf
  <2>3. Bottom(fr[k], b) <= top
    <3>1. CASE k = n
      BY <1>9, <2>2, <3>1
    <3>2. CASE k # n
      <4>1. k \in 1 .. n - 1
        BY <1>1, <3>2
      <4>2. BottomOf(fr, k) <= Depth(b, Context(fr, cur, k).sp) /\ Depth(b, Context(fr, cur, k).sp) < top
        BY <1>1, <2>2, <4>1
      <4>3. BottomOf(fr, k) \in Nat /\ Depth(b, Context(fr, cur, k).sp) \in Nat
        BY <1>1, <2>2, RingIs
      <4> HIDE DEF n, b, top
      <4> QED BY <2>2, <4>2, <4>3, <1>9
    <3> QED BY <3>1, <3>2
  <2>4. Context(fr2, cur2, k).at.cs = Context(fr, cur, k).at.cs
    <3>1. CASE k = n
      BY <1>8, <3>1
    <3>2. CASE k # n
      <4>1. k \in 1 .. n - 1
        BY <1>1, <3>2
      <4> QED BY <1>7, <4>1
    <3> QED BY <3>1, <3>2
  <2>5. SameUpTo(s, t, b, top)
    OBVIOUS
  <2> HIDE DEF n, b, top
  <2> QED BY <1>1, <1>4, <1>9, <2>1, <2>2, <2>3, <2>4, <2>5, ReturnKept
<1>11. ASSUME NEW k \in 1 .. n
       PROVE  WorkHolds(fr2[k], Context(fr2, cur2, k), BottomOf(fr2, k), b, t)
  <2>1. CASE k = n
    BY <1>3, <1>6, <1>8, <2>1
  <2>2. CASE k # n
    <3>1. k \in 1 .. n - 1
      BY <1>1, <2>2
    <3>2. WorkHolds(fr[k], Context(fr, cur, k), BottomOf(fr, k), b, s)
      BY DEF StackHolds
    <3>3. Depth(b, Context(fr, cur, k).sp) \in Nat /\ Depth(b, Context(fr, cur, k).sp) <= top
      <4>1. Depth(b, Context(fr, cur, k).sp) < top /\ Depth(b, Context(fr, cur, k).sp) \in 0 .. WORDS - 1
        BY <1>1, <3>1
      <4> HIDE DEF b, top
      <4> QED BY <1>9, <4>1, RingIs
    <3>4. SameUpTo(s, t, b, top)
      OBVIOUS
    <3>5. fr2[k] = fr[k] /\ Context(fr2, cur2, k) = Context(fr, cur, k) /\ BottomOf(fr2, k) = BottomOf(fr, k)
      BY <1>3, <1>6, <1>7, <2>2, <3>1
    <3>6. fr[k] \in Frames /\ BottomOf(fr, k) \in Nat
      BY <1>1
    <3> HIDE DEF n, b, top
    <3> QED BY <1>1, <1>9, <3>2, <3>3, <3>4, <3>5, <3>6, WorkKept
  <2> QED BY <2>1, <2>2
<1>12. ASSUME NEW j \in 1 .. n, NEW k \in 1 .. n, j <= k
       PROVE  Depth(b, Context(fr2, cur2, j).sp) <= Depth(b, Context(fr2, cur2, k).sp)
  <2>1. CASE j = k
    <3>1. Context(fr2, cur2, k).sp \in Ring
      <4>1. CASE k = n
        BY <1>8, <4>1 DEF Contexts
      <4>2. CASE k # n
        <5>1. k \in 1 .. n - 1
          BY <1>1, <4>2
        <5>2. Context(fr2, cur2, k) \in Contexts
          BY <1>1, <1>7, <5>1
        <5> QED BY <5>2 DEF Contexts
      <4> QED BY <4>1, <4>2
    <3>2. Depth(b, Context(fr2, cur2, k).sp) \in Nat
      BY <1>1, <3>1, DepthIsNat
    <3> HIDE DEF n, b
    <3> QED BY <2>1, <3>2
  <2>2. CASE j # k /\ k = n
    <3>1. j \in 1 .. n - 1
      BY <1>1, <2>2
    <3>2. Depth(b, Context(fr2, cur2, j).sp) < top
      BY <1>1, <1>7, <3>1
    <3>3. top <= Depth(b, cur2.sp)
      BY DEF WorkHolds
    <3>4. Depth(b, Context(fr2, cur2, j).sp) \in Nat
      <4>1. Context(fr, cur, j).sp \in Ring
        BY <1>1 DEF Contexts
      <4> QED BY <1>1, <1>7, <3>1, <4>1, DepthIsNat
    <3>5. Depth(b, cur2.sp) \in Nat
      <4>1. cur2.sp \in Ring
        BY DEF Contexts
      <4> QED BY <1>1, <4>1, DepthIsNat
    <3> HIDE DEF n, b, top
    <3> QED BY <1>8, <1>9, <2>2, <3>2, <3>3, <3>4, <3>5
  <2>3. CASE k # n
    <3>1. k \in 1 .. n - 1 /\ j \in 1 .. n - 1
      BY <1>1, <1>12, <2>3
    <3>2. Depth(b, Context(fr, cur, j).sp) <= Depth(b, Context(fr, cur, k).sp)
      BY <1>12 DEF StackHolds
    <3> QED BY <1>7, <3>1, <3>2
  <2> QED BY <2>1, <2>2, <2>3
<1>13. fr2 # <<>>
  BY <1>1, <1>3
<1>14. StackHolds(fr2, cur2, t)
  <2> HIDE DEF n, b, top
  <2> QED BY <1>3, <1>5, <1>10, <1>11, <1>12, <1>13 DEF StackHolds
<1> QED BY <1>14 DEF fr2

\* A call put on top of the others.
LEMMA Called ==
    ASSUME NEW fr, NEW cur, NEW s, StackHolds(fr, cur, s),
           NEW g \in Frames, g.caller = cur, ~g.entered, g.pushed = <<>>,
           NEW cur2 \in Contexts, cur2.bp = cur.bp, NEW t \in [Ring -> Int],
           Depth(BaseOf(fr), cur2.sp) = Bottom(g, BaseOf(fr)),
           SameUpTo(s, t, BaseOf(fr), Depth(BaseOf(fr), cur.sp)),
           ReturnHolds(g, cur2, BaseOf(fr), t)
    PROVE  StackHolds(Append(fr, g), cur2, t)
<1> DEFINE n == Len(fr)
           b == BaseOf(fr)
           top == Depth(b, cur.sp)
           fr2 == Append(fr, g)
<1>1. /\ n \in Nat /\ n >= 1 /\ b \in Ring /\ n \in 1 .. n
      /\ \A k \in 1 .. n :
           /\ fr[k] \in Frames /\ Context(fr, cur, k) \in Contexts
           /\ BottomOf(fr, k) \in Nat
           /\ Depth(b, Context(fr, cur, k).sp) \in 0 .. WORDS - 1
           /\ BottomOf(fr, k) <= Depth(b, Context(fr, cur, k).sp)
      /\ \A k \in 1 .. n - 1 : Context(fr, cur, k) = fr[k + 1].caller
  BY CallsAre
<1>2. fr \in Seq(Frames) /\ fr # <<>> /\ cur \in Contexts
  BY DEF StackHolds
<1>3. /\ fr2 \in Seq(Frames) /\ Len(fr2) = n + 1 /\ fr2[n + 1] = g
      /\ \A k \in 1 .. n : fr2[k] = fr[k]
  <2> HIDE DEF n
  <2> QED BY <1>1, <1>2 DEF n
<1> HIDE DEF fr2
<1>4. BaseOf(fr2) = b
  BY <1>1, <1>3 DEF BaseOf
<1>5. ASSUME NEW k \in 1 .. n
      PROVE  Context(fr2, cur2, k) = Context(fr, cur, k) /\ BottomOf(fr2, k) = BottomOf(fr, k)
             /\ fr2[k] = fr[k]
  <2>1. BottomOf(fr2, k) = BottomOf(fr, k)
    BY <1>3, <1>4 DEF BottomOf
  <2>2. k # n + 1 /\ k \in Nat
    <3> HIDE DEF n
    <3> QED BY <1>1
  <2>3. Context(fr2, cur2, k) = fr2[k + 1].caller
    BY <1>3, <2>2 DEF Context
  <2>4. Context(fr2, cur2, k) = Context(fr, cur, k)
    <3>1. CASE k = n
      <4>1. Context(fr, cur, k) = cur
        BY <3>1 DEF Context
      <4>2. fr2[k + 1] = g
        BY <1>3, <3>1
      <4> QED BY <2>3, <4>1, <4>2
    <3>2. CASE k # n
      <4>1. k + 1 \in 1 .. n
        BY <1>1, <3>2
      <4>2. Context(fr, cur, k) = fr[k + 1].caller
        BY <3>2 DEF Context
      <4> QED BY <1>3, <2>3, <4>1, <4>2
    <3> QED BY <3>1, <3>2
  <2> QED BY <1>3, <2>1, <2>4
<1>6. /\ Context(fr2, cur2, n + 1) = cur2 /\ fr2[n + 1] = g /\ BottomOf(fr2, n + 1) = Bottom(g, b)
  <2>1. n + 1 # 1
    BY <1>1
  <2> QED BY <1>3, <1>4, <2>1 DEF Context, BottomOf
<1>7. top \in Nat /\ Context(fr, cur, n) = cur /\ Bottom(g, b) \in Nat /\ top < Bottom(g, b)
  <2>1. cur.sp \in Ring
    BY <1>2 DEF Contexts
  <2>2. Context(fr, cur, n) = cur
    BY DEF Context
  <2> QED BY <1>1, <2>1, <2>2, DepthIsNat, BottomIs
<1>8. ASSUME NEW k \in 1 .. n
      PROVE  /\ Depth(b, Context(fr, cur, k).sp) \in Nat
             /\ Depth(b, Context(fr, cur, k).sp) <= top
  <2>1. Depth(b, Context(fr, cur, k).sp) <= Depth(b, Context(fr, cur, n).sp)
    <3>1. k <= n
      BY <1>1
    <3> QED BY <1>1, <3>1 DEF StackHolds
  <2>2. Context(fr, cur, k).sp \in Ring
    BY <1>1 DEF Contexts
  <2> QED BY <1>1, <1>7, <2>1, <2>2, DepthIsNat
<1>9. ASSUME NEW k \in 1 .. n + 1 PROVE k \in 1 .. n \/ k = n + 1
  <2> HIDE DEF n
  <2> QED BY <1>1
<1>10. ASSUME NEW k \in 2 .. n + 1
       PROVE  ReturnHolds(fr2[k], Context(fr2, cur2, k), b, t)
  <2>1. CASE k = n + 1
    BY <1>6, <2>1
  <2>2. CASE k # n + 1
    <3>1. k \in 1 .. n /\ k \in 2 .. n /\ k # 1
      BY <1>1, <2>2
    <3>2. ReturnHolds(fr[k], Context(fr, cur, k), b, s)
      BY <3>1 DEF StackHolds
    <3>3. Bottom(fr[k], b) <= top
      <4>1. Bottom(fr[k], b) = BottomOf(fr, k) /\ BottomOf(fr, k) \in Nat
            /\ BottomOf(fr, k) <= Depth(b, Context(fr, cur, k).sp)
        BY <1>1, <3>1 DEF BottomOf
      <4> HIDE DEF b, top
      <4> QED BY <1>7, <1>8, <3>1, <4>1
    <3>4. SameUpTo(s, t, b, top) /\ fr[k] \in Frames /\ SameCall(fr[k], fr[k])
      BY <1>1, <3>1 DEF SameCall
    <3>5. ReturnHolds(fr[k], Context(fr, cur, k), b, t)
      <4> HIDE DEF b, top
      <4> QED BY <1>1, <1>7, <3>2, <3>3, <3>4, ReturnKept
    <3> QED BY <1>5, <3>1, <3>5
  <2> QED BY <2>1, <2>2
<1>11. ASSUME NEW k \in 1 .. n + 1
       PROVE  WorkHolds(fr2[k], Context(fr2, cur2, k), BottomOf(fr2, k), b, t)
  <2>1. CASE k = n + 1
    <3>1. WorkHolds(g, cur2, Bottom(g, b), b, t)
      <4> HIDE DEF b
      <4>1. Depth(b, cur2.sp) = Bottom(g, b) /\ Bottom(g, b) \in Nat
        BY <1>7 DEF b
      <4> QED BY <4>1 DEF WorkHolds
    <3> QED BY <1>6, <2>1, <3>1
  <2>2. CASE k \in 1 .. n
    <3>1. WorkHolds(fr[k], Context(fr, cur, k), BottomOf(fr, k), b, s)
      BY <2>2 DEF StackHolds
    <3>2. SameUpTo(s, t, b, top) /\ fr[k] \in Frames /\ BottomOf(fr, k) \in Nat
      BY <1>1, <2>2
    <3>3. Depth(b, Context(fr, cur, k).sp) \in Nat /\ Depth(b, Context(fr, cur, k).sp) <= top
      BY <1>8, <2>2
    <3>4. WorkHolds(fr[k], Context(fr, cur, k), BottomOf(fr, k), b, t)
      <4> HIDE DEF b, top
      <4> QED BY <1>1, <1>7, <3>1, <3>2, <3>3, WorkKept
    <3> QED BY <1>5, <2>2, <3>4
  <2> QED BY <1>9, <2>1, <2>2
<1>12. ASSUME NEW j \in 1 .. n + 1, NEW k \in 1 .. n + 1, j <= k
       PROVE  Depth(b, Context(fr2, cur2, j).sp) <= Depth(b, Context(fr2, cur2, k).sp)
  <2>1. CASE k = n + 1 /\ j = n + 1
    <3>1. cur2.sp \in Ring
      BY DEF Contexts
    <3>2. Depth(b, cur2.sp) \in Nat
      BY <1>1, <3>1, DepthIsNat
    <3> HIDE DEF b
    <3> QED BY <1>6, <2>1, <3>2
  <2>2. CASE k = n + 1 /\ j \in 1 .. n
    <3>1. Context(fr2, cur2, j) = Context(fr, cur, j) /\ Context(fr2, cur2, k) = cur2
      BY <1>5, <1>6, <2>2
    <3>2. Depth(b, Context(fr, cur, j).sp) \in Nat /\ Depth(b, Context(fr, cur, j).sp) <= top
      BY <1>8, <2>2
    <3>3. Depth(b, cur2.sp) = Bottom(g, b)
      OBVIOUS
    <3> HIDE DEF b, top
    <3> QED BY <1>7, <3>1, <3>2, <3>3
  <2>3. CASE k \in 1 .. n
    <3>1. j \in 1 .. n
      <4> HIDE DEF n
      <4> QED BY <1>1, <1>12, <2>3
    <3>2. Depth(b, Context(fr, cur, j).sp) <= Depth(b, Context(fr, cur, k).sp)
      BY <1>12, <2>3, <3>1 DEF StackHolds
    <3> QED BY <1>5, <2>3, <3>1, <3>2
  <2> QED BY <1>9, <2>1, <2>2, <2>3
<1>13. fr2 # <<>>
  BY <1>1, <1>3
<1>14. StackHolds(fr2, cur2, t)
  <2>1. Len(fr2) = n + 1 /\ fr2 \in Seq(Frames)
    BY <1>3
  <2> HIDE DEF n, b, top
  <2> QED BY <1>4, <1>10, <1>11, <1>12, <1>13, <2>1 DEF StackHolds
<1> QED BY <1>14 DEF fr2

\* The last call taken off the others.
LEMMA Returned ==
    ASSUME NEW fr, NEW cur, NEW s, StackHolds(fr, cur, s), Len(fr) > 1,
           NEW cur2 \in Contexts, cur2.at = fr[Len(fr)].caller.at,
           cur2.sp = fr[Len(fr)].caller.sp, cur2.bp = fr[Len(fr)].caller.bp
    PROVE  StackHolds(Front(fr), cur2, s)
<1> DEFINE n == Len(fr)
           b == BaseOf(fr)
           fr2 == Front(fr)
<1>1. /\ n \in Nat /\ n > 1 /\ b \in Ring /\ fr \in Seq(Frames)
      /\ \A k \in 1 .. n :
           /\ fr[k] \in Frames /\ Context(fr, cur, k) \in Contexts
           /\ BottomOf(fr, k) \in Nat
           /\ Depth(b, Context(fr, cur, k).sp) \in 0 .. WORDS - 1
      /\ \A k \in 1 .. n - 1 : Context(fr, cur, k) = fr[k + 1].caller
  BY CallsAre DEF StackHolds
<1>2. /\ fr2 \in Seq(Frames) /\ Len(fr2) = n - 1
      /\ \A k \in 1 .. n - 1 : fr2[k] = fr[k]
  <2>1. fr2 = SubSeq(fr, 1, n - 1)
    BY DEF Front
  <2> HIDE DEF fr2, n
  <2>2. n = Len(fr) /\ 1 .. n - 1 \subseteq 1 .. n
    BY <1>1 DEF n
  <2> QED BY <1>1, <2>1, <2>2
<1> HIDE DEF fr2
<1>3. 1 \in 1 .. n - 1 /\ n - 1 \in 1 .. n - 1 /\ \A k \in 1 .. n - 1 : k \in 1 .. n /\ k # n
  BY <1>1
<1>4. BaseOf(fr2) = b
  BY <1>2, <1>3 DEF BaseOf
<1>5. ASSUME NEW k \in 1 .. n - 1
      PROVE  /\ Context(fr2, cur2, k).sp = Context(fr, cur, k).sp
             /\ Context(fr2, cur2, k).bp = Context(fr, cur, k).bp
             /\ Context(fr2, cur2, k).at.cs = Context(fr, cur, k).at.cs
             /\ BottomOf(fr2, k) = BottomOf(fr, k) /\ fr2[k] = fr[k]
  <2>1. BottomOf(fr2, k) = BottomOf(fr, k) /\ fr2[k] = fr[k]
    BY <1>2, <1>4 DEF BottomOf
  <2>2. CASE k = n - 1
    <3>1. Context(fr2, cur2, k) = cur2
      BY <1>2, <2>2 DEF Context
    <3>2. Context(fr, cur, k) = fr[n].caller
      <4>1. Context(fr, cur, k) = fr[k + 1].caller /\ k + 1 = n
        BY <1>1, <2>2
      <4> QED BY <4>1
    <3> QED BY <2>1, <3>1, <3>2
  <2>3. CASE k # n - 1
    <3>1. k + 1 \in 1 .. n - 1
      BY <1>1, <2>3
    <3>2. Context(fr2, cur2, k) = fr2[k + 1].caller /\ Context(fr, cur, k) = fr[k + 1].caller
      BY <1>1, <1>2, <2>3 DEF Context
    <3> QED BY <1>2, <2>1, <3>1, <3>2
  <2> QED BY <2>2, <2>3
<1>6. ASSUME NEW k \in 2 .. n - 1
      PROVE  ReturnHolds(fr2[k], Context(fr2, cur2, k), b, s)
  <2>1. k \in 1 .. n - 1 /\ k \in 2 .. n
    BY <1>1
  <2>2. ReturnHolds(fr[k], Context(fr, cur, k), b, s)
    BY <2>1 DEF StackHolds
  <2>3. Context(fr2, cur2, k).at.cs = Context(fr, cur, k).at.cs /\ fr2[k] = fr[k]
    BY <1>5, <2>1
  <2> QED BY <2>2, <2>3 DEF ReturnHolds
<1>7. ASSUME NEW k \in 1 .. n - 1
      PROVE  WorkHolds(fr2[k], Context(fr2, cur2, k), BottomOf(fr2, k), b, s)
  <2>1. WorkHolds(fr[k], Context(fr, cur, k), BottomOf(fr, k), b, s)
    BY <1>3 DEF StackHolds
  <2>2. k \in 1 .. n
    BY <1>3
  <2>3. fr[k] \in Frames /\ BottomOf(fr, k) \in Nat /\ Context(fr, cur, k).sp \in Ring
    BY <1>1, <2>2 DEF Contexts
  <2>4. Depth(b, Context(fr, cur, k).sp) \in Nat
    BY <1>1, <2>3, DepthIsNat
  <2> DEFINE top == Depth(b, Context(fr, cur, k).sp)
  <2>5. SameUpTo(s, s, b, top) /\ top <= top
    <3> HIDE DEF b
    <3> QED BY <2>4 DEF SameUpTo
  <2>6. WorkHolds(fr[k], Context(fr2, cur2, k), BottomOf(fr, k), b, s)
    <3>1. /\ Context(fr2, cur2, k).sp = Context(fr, cur, k).sp
          /\ Context(fr2, cur2, k).bp = Context(fr, cur, k).bp
      BY <1>5
    <3> HIDE DEF b
    <3> QED BY <1>1, <2>1, <2>3, <2>4, <2>5, <3>1, WorkKept
  <2> QED BY <1>5, <2>6
<1>8. ASSUME NEW j \in 1 .. n - 1, NEW k \in 1 .. n - 1, j <= k
      PROVE  Depth(b, Context(fr2, cur2, j).sp) <= Depth(b, Context(fr2, cur2, k).sp)
  <2>1. Depth(b, Context(fr, cur, j).sp) <= Depth(b, Context(fr, cur, k).sp)
    BY <1>3, <1>8 DEF StackHolds
  <2> QED BY <1>5, <2>1
<1>9. fr2 # <<>> /\ s \in [Ring -> Int]
  BY <1>1, <1>2 DEF StackHolds
<1>10. StackHolds(fr2, cur2, s)
  <2>1. Len(fr2) = n - 1 /\ fr2 \in Seq(Frames)
    BY <1>2
  <2> HIDE DEF n, b
  <2> QED BY <1>4, <1>6, <1>7, <1>8, <1>9, <2>1 DEF StackHolds
<1> QED BY <1>10 DEF fr2

\* What a call puts on the stack.
PutOf(args, iret, fl, far, cs, ip) ==
  [i \in 1 .. args |-> 0] \o (IF iret THEN <<fl>> ELSE <<>>)
    \o (IF far THEN <<cs, ip>> ELSE <<ip>>)

\* The return address is its last, over what else IRET takes.
LEMMA PutByCall ==
    ASSUME NEW args \in Nat, NEW far \in BOOLEAN, NEW iret \in BOOLEAN, iret => far,
           NEW cs \in Int, NEW ip \in Int, NEW fl \in Int
    PROVE  LET put == PutOf(args, iret, fl, far, cs, ip)
           IN  /\ put \in Seq(Int)
               /\ Len(put) = args + (IF iret THEN 1 ELSE 0) + (IF far THEN 2 ELSE 1)
               /\ put[Len(put)] = ip
               /\ far => put[Len(put) - 1] = cs
               /\ iret => put[Len(put) - 2] = fl
<1> DEFINE z == [i \in 1 .. args |-> 0]
           one == IF iret THEN <<fl>> ELSE <<>>
           two == IF far THEN <<cs, ip>> ELSE <<ip>>
           put == z \o one \o two
<1>1. z \in Seq(Int) /\ Len(z) = args
  <2>1. z \in [1 .. args -> Int]
    OBVIOUS
  <2> HIDE DEF z
  <2> QED BY <2>1, ListOfNumbers
<1>2. one \in Seq(Int) /\ Len(one) = (IF iret THEN 1 ELSE 0) /\ (iret => one[1] = fl)
  <2>1. CASE iret
    BY <2>1
  <2>2. CASE ~iret
    BY <2>2
  <2> QED BY <2>1, <2>2
<1>3. two \in Seq(Int) /\ Len(two) = (IF far THEN 2 ELSE 1) /\ two[Len(two)] = ip
      /\ (far => two[1] = cs)
  <2>1. CASE far
    BY <2>1
  <2>2. CASE ~far
    BY <2>2
  <2> QED BY <2>1, <2>2
<1> HIDE DEF z, one, two
<1>4. /\ z \o one \in Seq(Int) /\ Len(z \o one) = args + Len(one)
      /\ iret => (z \o one)[args + 1] = fl
  <2>1. z \o one \in Seq(Int) /\ Len(z \o one) = args + Len(one)
        /\ \A i \in 1 .. Len(z) + Len(one) :
              (z \o one)[i] = IF i <= Len(z) THEN z[i] ELSE one[i - Len(z)]
    BY <1>1, <1>2, ConcatProperties
  <2>2. ASSUME iret PROVE (z \o one)[args + 1] = fl
    <3>1. args + 1 \in 1 .. Len(z) + Len(one) /\ ~(args + 1 <= Len(z)) /\ (args + 1) - Len(z) = 1
      BY <1>1, <1>2, <2>2
    <3> QED BY <1>1, <1>2, <2>1, <2>2, <3>1
  <2> QED BY <2>1, <2>2
<1> DEFINE zo == z \o one
<1>5. zo \in Seq(Int) /\ Len(zo) = args + Len(one) /\ (iret => zo[Len(zo)] = fl) /\ Len(zo) \in Nat
  BY <1>2, <1>4
<1>6. put = zo \o two
  OBVIOUS
<1> HIDE DEF zo, put
<1>7. /\ put \in Seq(Int) /\ Len(put) = Len(zo) + Len(two)
      /\ \A i \in 1 .. Len(zo) + Len(two) :
            put[i] = IF i <= Len(zo) THEN zo[i] ELSE two[i - Len(zo)]
  <2>1. /\ zo \o two \in Seq(Int) /\ Len(zo \o two) = Len(zo) + Len(two)
        /\ \A i \in 1 .. Len(zo) + Len(two) :
              (zo \o two)[i] = IF i <= Len(zo) THEN zo[i] ELSE two[i - Len(zo)]
    <3>1. zo \in Seq(Int) /\ two \in Seq(Int)
      BY <1>3, <1>5
    <3> QED BY <3>1, ConcatProperties
  <2> QED BY <1>6, <2>1, Zenon
<1>9. put[Len(put)] = ip
  <2>1. Len(put) \in 1 .. Len(zo) + Len(two) /\ ~(Len(put) <= Len(zo)) /\ Len(put) - Len(zo) = Len(two)
    BY <1>3, <1>5, <1>7
  <2> QED BY <1>3, <1>7, <2>1
<1>10. ASSUME far PROVE put[Len(put) - 1] = cs
  <2>1. Len(put) - 1 \in 1 .. Len(zo) + Len(two) /\ ~(Len(put) - 1 <= Len(zo)) /\ (Len(put) - 1) - Len(zo) = 1
    BY <1>3, <1>5, <1>7, <1>10
  <2> QED BY <1>3, <1>7, <1>10, <2>1
<1>11. ASSUME iret PROVE put[Len(put) - 2] = fl
  <2>1. Len(put) - 2 = Len(zo) /\ Len(zo) \in 1 .. Len(zo) + Len(two)
    BY <1>2, <1>3, <1>5, <1>7, <1>11
  <2>2. put[Len(zo)] = zo[Len(zo)]
    BY <1>7, <2>1, <1>5
  <2> QED BY <1>5, <1>11, <2>1, <2>2
<1>12. Len(put) = args + (IF iret THEN 1 ELSE 0) + (IF far THEN 2 ELSE 1)
  BY <1>2, <1>3, <1>5, <1>7
<1>13. put = PutOf(args, iret, fl, far, cs, ip)
  BY DEF put, z, one, two, PutOf
<1> QED BY <1>7, <1>9, <1>10, <1>11, <1>12, <1>13

\* Where the guest is.
LEMMA NowIs ==
    ASSUME StackInv
    PROVE  LET b == BaseOf(frames)
               n == Len(frames)
               to == BottomOf(frames, n)
           IN  /\ StackHolds(frames, Current, stack) /\ b \in Ring /\ n \in Nat /\ n >= 1
               /\ Now \in StackMachines /\ Now.r = r /\ Now.s = stack
               /\ Current \in Contexts /\ Current.at = at /\ Current.sp = r["sp"] /\ Current.bp = r["bp"]
               /\ Current.flags = flags
               /\ at \in [cs : Int, ip : Int] /\ flags \in Int /\ r["sp"] \in Ring /\ r["bp"] \in Ring
               /\ F = frames[n] /\ F \in Frames /\ to \in Nat
               /\ WorkHolds(F, Current, to, b, stack)
               /\ n > 1 => ReturnHolds(F, Current, b, stack) /\ to = Bottom(F, b)
               /\ Depth(b, r["sp"]) \in Nat /\ Depth(b, r["sp"]) < WORDS /\ to <= Depth(b, r["sp"])
               /\ \A k : Room(k) <=> Depth(b, r["sp"]) + k < WORDS
<1> DEFINE n == Len(frames)
           b == BaseOf(frames)
           to == BottomOf(frames, n)
<1>1. /\ r \in Files /\ StackHolds(frames, Current, stack)
  BY DEF StackInv
<1>2. /\ frames \in Seq(Frames) /\ frames # <<>> /\ Current \in Contexts /\ stack \in [Ring -> Int]
      /\ \A k \in 2 .. n : ReturnHolds(frames[k], Context(frames, Current, k), b, stack)
      /\ \A k \in 1 .. n : WorkHolds(frames[k], Context(frames, Current, k), BottomOf(frames, k), b, stack)
  BY <1>1 DEF StackHolds
<1>3. n \in Nat /\ n >= 1 /\ b \in Ring /\ n \in 1 .. n /\ to \in Nat /\ frames[n] \in Frames
  <2>1. n \in Nat /\ n >= 1 /\ b \in Ring
        /\ \A k \in 1 .. n : frames[k] \in Frames /\ BottomOf(frames, k) \in Nat
    BY <1>1, CallsAre
  <2>2. n \in 1 .. n
    BY <2>1
  <2> HIDE DEF n, b
  <2> QED BY <2>1, <2>2
<1>4. Now \in StackMachines /\ Now.r = r /\ Now.s = stack
  BY <1>1, <1>2 DEF Now, StackMachines
<1>5. Current.at = at /\ Current.sp = r["sp"] /\ Current.bp = r["bp"] /\ Current.flags = flags
  BY DEF Current
<1>6. at \in [cs : Int, ip : Int] /\ flags \in Int /\ r["sp"] \in Ring /\ r["bp"] \in Ring
  BY <1>2, <1>5 DEF Contexts
<1>7. F = frames[n]
  BY DEF F, Last
<1>8. Context(frames, Current, n) = Current
  BY DEF Context
<1>9. WorkHolds(F, Current, to, b, stack)
  BY <1>2, <1>3, <1>7, <1>8
<1>10. ASSUME n > 1 PROVE ReturnHolds(F, Current, b, stack) /\ to = Bottom(F, b)
  <2>1. n \in 2 .. n /\ n # 1
    BY <1>3, <1>10
  <2>2. to = Bottom(frames[n], b)
    BY <2>1 DEF BottomOf
  <2> HIDE DEF n, b, to
  <2> QED BY <1>2, <1>7, <1>8, <2>1, <2>2
<1>11. Depth(b, r["sp"]) \in Nat /\ Depth(b, r["sp"]) < WORDS
  BY <1>3, <1>6, DepthIsNat
<1>12. to <= Depth(b, r["sp"])
  BY <1>5, <1>9 DEF WorkHolds
<1>13. \A k : Room(k) <=> Depth(b, r["sp"]) + k < WORDS
  BY DEF Room, Depth, BaseOf
<1> QED BY <1>1, <1>2, <1>3, <1>4, <1>5, <1>6, <1>7, <1>9, <1>10, <1>11, <1>12, <1>13

\* CALL leaves what its return will take, and nothing under it touched.
LEMMA CallKeeps ==
    ASSUME StackInv, NEW far \in BOOLEAN, NEW iret \in BOOLEAN, NEW args \in 0 .. MostArgs,
           Call(far, args, iret)
    PROVE  StackInv'
<1> DEFINE n == Len(frames)
           b == BaseOf(frames)
           d0 == Depth(b, r["sp"])
           put == [i \in 1 .. args |-> 0] \o (IF iret THEN <<flags>> ELSE <<>>)
                    \o (IF far THEN <<at.cs, at.ip>> ELSE <<at.ip>>)
           g == [far |-> far, args |-> args, iret |-> iret, entered |-> FALSE, pushed |-> <<>>,
                 caller |-> [at |-> at, sp |-> r["sp"], bp |-> r["bp"], flags |-> flags]]
           m == PushAll(Now, put)
<1>1. /\ StackHolds(frames, Current, stack) /\ b \in Ring
      /\ Now \in StackMachines /\ Now.r = r /\ Now.s = stack
      /\ Current \in Contexts /\ Current.sp = r["sp"] /\ Current.bp = r["bp"] /\ Current.at = at
      /\ at \in [cs : Int, ip : Int] /\ flags \in Int
      /\ d0 \in Nat /\ d0 < WORDS
      /\ \A k : Room(k) <=> d0 + k < WORDS
  BY NowIs
<1>2. args \in Nat /\ (iret => far) /\ Room(Len(put)) /\ Becomes(m) /\ frames' = Append(frames, g)
      /\ (\E to \in Places : (far \/ to.cs = at.cs) /\ at' = to) /\ flags' = flags /\ back' = back
  BY CpuStackConstants DEF Call
<1>3. g \in Frames /\ g.caller = Current /\ ~g.entered /\ g.pushed = <<>> /\ g.far = far
      /\ g.args = args /\ g.iret = iret
  <2>1. <<>> \in Seq(SavedThings)
    OBVIOUS
  <2> QED BY <1>1, <1>2, <2>1 DEF Frames, Current
<1>4. /\ put \in Seq(Int)
      /\ Len(put) = args + (IF iret THEN 1 ELSE 0) + (IF far THEN 2 ELSE 1)
      /\ put[Len(put)] = at.ip
      /\ far => put[Len(put) - 1] = at.cs
      /\ iret => put[Len(put) - 2] = flags
  <2>1. at.cs \in Int /\ at.ip \in Int
    BY <1>1
  <2>2. args \in Nat /\ far \in BOOLEAN /\ iret \in BOOLEAN /\ (iret => far) /\ flags \in Int
    BY <1>1, <1>2
  <2>3. put = PutOf(args, iret, flags, far, at.cs, at.ip)
    BY DEF PutOf
  <2> HIDE DEF put
  <2> DEFINE cs == at.cs
             ip == at.ip
             fl == flags
             q == PutOf(args, iret, fl, far, cs, ip)
  <2>4. cs \in Int /\ ip \in Int /\ fl \in Int
    BY <2>1, <2>2
  <2> HIDE DEF cs, ip, fl
  <2>5. /\ q \in Seq(Int)
        /\ Len(q) = args + (IF iret THEN 1 ELSE 0) + (IF far THEN 2 ELSE 1)
        /\ q[Len(q)] = ip
        /\ far => q[Len(q) - 1] = cs
        /\ iret => q[Len(q) - 2] = fl
    BY <2>2, <2>4, PutByCall
  <2> QED BY <2>3, <2>5 DEF cs, ip, fl
<1> HIDE DEF put, g
<1>5. /\ m \in StackMachines
      /\ Depth(b, m.r["sp"]) = d0 + Len(put)
      /\ \A x \in RegNames : x # "sp" => m.r[x] = r[x]
      /\ \A d \in 0 .. WORDS - 1 :
            AtDepth(m.s, b, d) = IF d \in d0 + 1 .. d0 + Len(put) THEN put[d - d0]
                                 ELSE AtDepth(stack, b, d)
  <2>1. Depth(b, Now.r["sp"]) + Len(put) < WORDS
    BY <1>1, <1>2
  <2>2. PushedOn(m, Now, put, b)
    <3>1. Now \in StackMachines /\ b \in Ring /\ put \in Seq(Int)
      BY <1>1, <1>4
    <3> HIDE DEF b
    <3> QED BY <2>1, <3>1, PushingIsOnTop
  <2> HIDE DEF m
  <2> QED BY <1>1, <2>2 DEF PushedOn
<1> HIDE DEF m
<1>6. /\ r' = m.r /\ stack' = m.s /\ r' \in Files /\ stack' \in [Ring -> Int]
      /\ r'["bp"] = r["bp"] /\ r'["sp"] \in Ring /\ r'["bp"] \in Ring
      /\ Depth(b, r'["sp"]) = d0 + Len(put)
  BY <1>2, <1>5 DEF Becomes, StackMachines, Files, RegNames
<1>7. at' \in [cs : Int, ip : Int] /\ (~far => at'.cs = at.cs)
  BY <1>2, CpuStackConstants
<1>8. /\ Current' \in Contexts /\ Current'.bp = Current.bp /\ Current'.sp = r'["sp"]
      /\ Current'.at = at'
  BY <1>1, <1>2, <1>6, <1>7 DEF Current, Contexts
<1>9. Bottom(g, b) = d0 + Len(put) /\ Len(put) \in Nat /\ Len(put) >= 1
      /\ d0 + Len(put) < WORDS /\ (far => Len(put) >= 2) /\ (iret => Len(put) >= 3)
  <2>1. Bottom(g, b) = d0 + args + (IF iret THEN 1 ELSE 0) + (IF far THEN 2 ELSE 1)
    BY <1>1, <1>3 DEF Bottom
  <2>2. d0 + Len(put) < WORDS
    BY <1>1, <1>2
  <2> HIDE DEF d0
  <2>3. CASE iret
    BY <1>1, <1>2, <1>4, <2>1, <2>2, <2>3
  <2>4. CASE ~iret /\ far
    BY <1>1, <1>2, <1>4, <2>1, <2>2, <2>4
  <2>5. CASE ~far
    BY <1>1, <1>2, <1>4, <2>1, <2>2, <2>5
  <2> QED BY <2>3, <2>4, <2>5
<1>10. SameUpTo(stack, stack', b, d0)
  <2> SUFFICES ASSUME NEW d \in 0 .. d0 PROVE AtDepth(stack, b, d) = AtDepth(stack', b, d)
    BY DEF SameUpTo
  <2> HIDE DEF d0
  <2>1. d \in 0 .. WORDS - 1 /\ d \notin d0 + 1 .. d0 + Len(put)
    BY <1>1, RingIs
  <2> QED BY <1>5, <1>6, <2>1
<1>11. ASSUME NEW i \in 1 .. Len(put) PROVE AtDepth(stack', b, d0 + i) = put[i]
  <2> HIDE DEF d0
  <2>1. d0 + i \in 0 .. WORDS - 1 /\ d0 + i \in d0 + 1 .. d0 + Len(put) /\ (d0 + i) - d0 = i
    BY <1>1, <1>9, RingIs
  <2> QED BY <1>5, <1>6, <2>1
<1>12. ReturnHolds(g, Current', b, stack')
  <2> DEFINE to == d0 + Len(put)
  <2>1. AtDepth(stack', b, to) = at.ip
    <3>1. Len(put) \in 1 .. Len(put)
      BY <1>9
    <3> QED BY <1>4, <1>11, <3>1
  <2>2. ASSUME far PROVE AtDepth(stack', b, to - 1) = at.cs
    <3> HIDE DEF d0
    <3>1. Len(put) - 1 \in 1 .. Len(put) /\ to - 1 = d0 + (Len(put) - 1)
      BY <1>1, <1>9, <2>2
    <3> QED BY <1>4, <1>11, <2>2, <3>1
  <2>3. ASSUME iret PROVE AtDepth(stack', b, to - 2) = flags
    <3> HIDE DEF d0
    <3>1. Len(put) - 2 \in 1 .. Len(put) /\ to - 2 = d0 + (Len(put) - 2)
      BY <1>1, <1>9, <2>3
    <3> QED BY <1>4, <1>11, <2>3, <3>1
  <2>4. g.caller.at = at /\ g.caller.flags = flags
    BY <1>3 DEF Current
  <2>5. Bottom(g, b) = to
    BY <1>9
  <2>6. ~far => Current'.at.cs = at.cs /\ ~iret
    BY <1>2, <1>7, <1>8
  <2> HIDE DEF to, d0, b
  <2> QED BY <1>3, <2>1, <2>2, <2>3, <2>4, <2>5, <2>6 DEF ReturnHolds
<1>13. StackHolds(frames', Current', stack')
  <2>1. Depth(b, Current'.sp) = Bottom(g, b)
    BY <1>6, <1>8, <1>9
  <2>2. SameUpTo(stack, stack', b, Depth(b, Current.sp))
    BY <1>1, <1>10
  <2>3. StackHolds(Append(frames, g), Current', stack')
    BY <1>1, <1>3, <1>6, <1>8, <1>12, <2>1, <2>2, Called
  <2> QED BY <1>2, <2>3
<1>14. ReturnsToItsCaller'
  BY <1>2 DEF StackInv, ReturnsToItsCaller
<1> QED BY <1>6, <1>13, <1>14 DEF StackInv

\* RET, RETF and IRET find what the call put there, and SP is where it was.
LEMMA ReturnKeeps ==
    ASSUME StackInv, Return
    PROVE  StackInv'
<1> DEFINE n == Len(frames)
           b == BaseOf(frames)
           d0 == Depth(b, r["sp"])
           to == BottomOf(frames, n)
           i == (IF F.far THEN 2 ELSE 1) + (IF F.iret THEN 1 ELSE 0) + F.args
           m == Drop(Now, i)
<1>1. /\ StackHolds(frames, Current, stack) /\ b \in Ring /\ n \in Nat
      /\ Now \in StackMachines /\ Now.r = r /\ Now.s = stack
      /\ Current.sp = r["sp"] /\ Current.bp = r["bp"] /\ Current.at = at /\ flags \in Int
      /\ at \in [cs : Int, ip : Int] /\ r["sp"] \in Ring /\ r["bp"] \in Ring
      /\ F = frames[n] /\ F \in Frames /\ WorkHolds(F, Current, to, b, stack)
      /\ n > 1 => ReturnHolds(F, Current, b, stack) /\ to = Bottom(F, b)
      /\ d0 \in Nat /\ d0 < WORDS
  BY NowIs
<1>2. /\ n > 1 /\ ~F.entered
      /\ at' = Target(Now, F.far)
      /\ flags' = IF F.iret THEN Word(Now, 2) ELSE flags
      /\ Becomes(m)
      /\ back' = [is |-> [at |-> at', sp |-> m.r["sp"], bp |-> m.r["bp"], flags |-> flags'],
                  was |-> IF F.iret THEN F.caller ELSE [F.caller EXCEPT !.flags = flags]]
      /\ frames' = Front(frames)
  BY DEF Return, Drops
<1>3. /\ d0 = to /\ r["bp"] = F.caller.bp /\ to = Bottom(F, b) /\ ReturnHolds(F, Current, b, stack)
  BY <1>1, <1>2 DEF WorkHolds
<1>4. /\ F.far \in BOOLEAN /\ F.iret \in BOOLEAN /\ F.args \in Nat /\ F.caller \in Contexts
      /\ F.caller.at \in [cs : Int, ip : Int] /\ F.caller.flags \in Int
      /\ F.caller.sp \in Ring /\ F.caller.bp \in Ring
      /\ F.caller = [at |-> F.caller.at, sp |-> F.caller.sp, bp |-> F.caller.bp,
                     flags |-> F.caller.flags]
  <2> DEFINE f == F
  <2> HIDE DEF f
  <2>1. f \in Frames
    BY <1>1 DEF f
  <2>2. f.caller \in Contexts /\ f.far \in BOOLEAN /\ f.iret \in BOOLEAN /\ f.args \in Nat
    BY <2>1 DEF Frames
  <2> QED BY <2>2 DEF Contexts, f
<1>5. /\ AtDepth(stack, b, d0) = F.caller.at.ip
      /\ F.far => AtDepth(stack, b, d0 - 1) = F.caller.at.cs
      /\ ~F.far => at.cs = F.caller.at.cs /\ ~F.iret
      /\ F.iret => AtDepth(stack, b, d0 - 2) = F.caller.flags
  BY <1>1, <1>3 DEF ReturnHolds
<1>6. /\ Depth(b, F.caller.sp) \in Nat /\ i \in Nat
      /\ d0 - i = Depth(b, F.caller.sp) /\ i >= 1 /\ i <= d0
      /\ F.far => i >= 2
      /\ F.iret => i >= 3
  <2>1. d0 = Depth(b, F.caller.sp) + F.args + (IF F.iret THEN 1 ELSE 0) + (IF F.far THEN 2 ELSE 1)
    BY <1>3 DEF Bottom
  <2>2. Depth(b, F.caller.sp) \in Nat
    BY <1>1, <1>4, DepthIsNat
  <2> DEFINE dc == Depth(b, F.caller.sp)
             k == F.args
  <2>3. d0 = dc + k + (IF F.iret THEN 1 ELSE 0) + (IF F.far THEN 2 ELSE 1) /\ dc \in Nat /\ k \in Nat
        /\ i = (IF F.far THEN 2 ELSE 1) + (IF F.iret THEN 1 ELSE 0) + k
    BY <1>4, <2>1, <2>2
  <2> HIDE DEF d0, dc, k, i
  <2>4. i \in Nat /\ d0 - i = dc /\ i >= 1 /\ i <= d0 /\ (F.far => i >= 2) /\ (F.iret => i >= 3)
    <3>1. CASE F.iret /\ F.far
      BY <2>3, <3>1
    <3>2. CASE ~F.iret /\ F.far
      BY <2>3, <3>2
    <3>3. CASE ~F.far
      BY <2>3, <3>3, <1>5
    <3> QED BY <3>1, <3>2, <3>3
  <2> QED BY <2>2, <2>4 DEF dc
<1> HIDE DEF i
<1>7. ASSUME NEW k \in Nat, k <= d0 PROVE Word(Now, k) = AtDepth(stack, b, d0 - k)
  BY <1>1, <1>7, WordIsAtDepth
<1>8. /\ Word(Now, 0) = F.caller.at.ip
      /\ F.far => Word(Now, 1) = F.caller.at.cs
      /\ F.iret => Word(Now, 2) = F.caller.flags
  <2> HIDE DEF d0
  <2>1. 0 \in Nat /\ 0 <= d0 /\ d0 - 0 = d0 /\ 1 \in Nat /\ 1 <= d0 /\ 2 \in Nat /\ (F.iret => 2 <= d0)
    BY <1>1, <1>6
  <2> QED BY <1>5, <1>7, <2>1
<1>9. at' = F.caller.at
  <2>1. at' = [cs |-> F.caller.at.cs, ip |-> F.caller.at.ip]
    BY <1>2, <1>5, <1>8 DEF Target
  <2> QED BY <1>4, <2>1
<1>10. /\ m \in StackMachines /\ m.s = stack /\ Depth(b, m.r["sp"]) = d0 - i
       /\ m.r["bp"] = r["bp"]
  <2>1. i <= Depth(b, Now.r["sp"])
    BY <1>1, <1>6
  <2>2. /\ Drop(Now, i) \in StackMachines /\ Drop(Now, i).s = Now.s
        /\ Depth(b, Drop(Now, i).r["sp"]) = Depth(b, Now.r["sp"]) - i
        /\ \A x \in RegNames : x # "sp" => Drop(Now, i).r[x] = Now.r[x]
    BY <1>1, <1>6, <2>1, WordIsAtDepth
  <2> HIDE DEF d0, b
  <2> QED BY <1>1, <2>2 DEF RegNames, d0
<1> HIDE DEF m
<1>11. /\ r' = m.r /\ stack' = stack /\ r' \in Files /\ r'["sp"] = F.caller.sp /\ r'["bp"] = F.caller.bp
  <2>1. m.r \in Files /\ m.r["sp"] \in Ring
    BY <1>10 DEF StackMachines, Files
  <2>2. Depth(b, m.r["sp"]) = Depth(b, F.caller.sp)
    BY <1>6, <1>10
  <2>3. m.r["sp"] = F.caller.sp
    BY <1>1, <1>4, <2>1, <2>2, DepthNames
  <2> QED BY <1>2, <1>3, <1>10, <2>1, <2>3 DEF Becomes
<1>12. flags' = IF F.iret THEN F.caller.flags ELSE flags
  BY <1>2, <1>8
<1>13. back'.is = back'.was
  <2>1. back'.is = [at |-> F.caller.at, sp |-> F.caller.sp, bp |-> F.caller.bp, flags |-> flags']
    BY <1>2, <1>9, <1>11
  <2>2. CASE F.iret
    BY <1>2, <1>4, <1>12, <2>1, <2>2
  <2>3. CASE ~F.iret
    <3>1. [F.caller EXCEPT !.flags = flags] =
            [at |-> F.caller.at, sp |-> F.caller.sp, bp |-> F.caller.bp, flags |-> flags]
      BY <1>4
    <3> QED BY <1>2, <1>12, <2>1, <2>3, <3>1
  <2> QED BY <2>2, <2>3
<1>14. StackHolds(frames', Current', stack')
  <2>1. Current' = [at |-> F.caller.at, sp |-> F.caller.sp, bp |-> F.caller.bp, flags |-> flags']
    BY <1>9, <1>11 DEF Current
  <2>2. flags' \in Int
    BY <1>1, <1>4, <1>12
  <2>3. /\ Current' \in Contexts /\ Current'.at = F.caller.at /\ Current'.sp = F.caller.sp
        /\ Current'.bp = F.caller.bp
    BY <1>4, <2>1, <2>2 DEF Contexts
  <2>4. StackHolds(Front(frames), Current', stack)
    <3>1. /\ Current'.at = frames[Len(frames)].caller.at /\ Current'.sp = frames[Len(frames)].caller.sp
          /\ Current'.bp = frames[Len(frames)].caller.bp /\ Len(frames) > 1
      BY <1>1, <1>2, <2>3
    <3> QED BY <1>1, <2>3, <3>1, Returned
  <2> QED BY <1>2, <1>11, <2>4
<1>15. ReturnsToItsCaller'
  BY <1>13 DEF ReturnsToItsCaller
<1> QED BY <1>11, <1>14, <1>15 DEF StackInv

\* A step within a procedure keeps the calls, if it keeps its own.
LEMMA WithinKeeps ==
    ASSUME StackInv, NEW g \in Frames, SameCall(F, g), frames' = WithF(g),
           r' \in Files, flags' \in Int, at' = at, stack' \in [Ring -> Int],
           SameUpTo(stack, stack', BaseOf(frames), BottomOf(frames, Len(frames))),
           WorkHolds(g, Current', BottomOf(frames, Len(frames)), BaseOf(frames), stack')
    PROVE  StackHolds(frames', Current', stack')
<1>1. /\ StackHolds(frames, Current, stack) /\ Current.at = at /\ at \in [cs : Int, ip : Int]
      /\ F = frames[Len(frames)]
  BY NowIs
<1>2. Current' \in Contexts /\ Current'.at = at'
  BY <1>1 DEF Current, Contexts, Files
<1>3. frames' = [frames EXCEPT ![Len(frames)] = g]
  BY DEF WithF
<1>4. SameCall(frames[Len(frames)], g) /\ Current'.at.cs = Current.at.cs
  BY <1>1, <1>2
<1>5. StackHolds([frames EXCEPT ![Len(frames)] = g], Current', stack')
  BY <1>1, <1>2, <1>4, Within
<1> QED BY <1>3, <1>5

\* ENTER.
LEMMA EnterKeeps ==
    ASSUME StackInv, EnterFrame
    PROVE  StackInv'
<1> DEFINE b == BaseOf(frames)
           d0 == Depth(b, r["sp"])
           to == BottomOf(frames, Len(frames))
           g == [F EXCEPT !.entered = TRUE]
<1>1. /\ b \in Ring /\ Now \in StackMachines /\ Now.r = r /\ Now.s = stack
      /\ Current.sp = r["sp"] /\ Current.bp = r["bp"] /\ flags \in Int
      /\ F \in Frames /\ WorkHolds(F, Current, to, b, stack) /\ to \in Nat
      /\ \A k : Room(k) <=> d0 + k < WORDS
  BY NowIs
<1>2. PICK alloc \in Locals, level \in Nestings :
         Room(1 + alloc + level) /\ Becomes(Enter(Now, alloc, level))
  BY DEF EnterFrame
<1>3. ~F.entered /\ frames' = WithF(g) /\ at' = at /\ flags' = flags /\ back' = back
  BY DEF EnterFrame
<1>4. d0 = to /\ r["bp"] = F.caller.bp /\ F.pushed = <<>>
  BY <1>1, <1>3 DEF WorkHolds
<1> DEFINE m == Enter(Now, alloc, level)
<1>5. /\ m \in StackMachines
      /\ Depth(b, m.r["bp"]) = d0 + 1 /\ d0 + 1 <= Depth(b, m.r["sp"])
      /\ AtDepth(m.s, b, d0 + 1) = r["bp"]
      /\ \A d \in 0 .. d0 : AtDepth(m.s, b, d) = AtDepth(stack, b, d)
  <2>1. alloc \in Nat /\ level \in Nat
    BY <1>2, CpuStackConstants
  <2>2. d0 + (1 + alloc + level) < WORDS
    BY <1>1, <1>2
  <2>3. d0 \in Nat
    BY NowIs
  <2>4. Depth(b, Now.r["sp"]) + 1 + alloc + level < WORDS
    <3>1. d0 + 1 + alloc + level < WORDS
      <4> HIDE DEF d0
      <4> QED BY <2>1, <2>2, <2>3, RingIs
    <3> QED BY <1>1, <3>1
  <2>5. /\ Enter(Now, alloc, level) \in StackMachines
        /\ Depth(b, Enter(Now, alloc, level).r["bp"]) = Depth(b, Now.r["sp"]) + 1
        /\ Depth(b, Now.r["sp"]) + 1 <= Depth(b, Enter(Now, alloc, level).r["sp"])
        /\ AtDepth(Enter(Now, alloc, level).s, b, Depth(b, Now.r["sp"]) + 1) = Now.r["bp"]
        /\ \A d \in 0 .. Depth(b, Now.r["sp"]) :
              AtDepth(Enter(Now, alloc, level).s, b, d) = AtDepth(Now.s, b, d)
    <3> HIDE DEF b
    <3> QED BY <1>1, <2>1, <2>4, EnterIsOnTop
  <2> QED BY <1>1, <2>5
<1> HIDE DEF m
<1>6. r' = m.r /\ stack' = m.s /\ r' \in Files /\ stack' \in [Ring -> Int]
  BY <1>2, <1>5 DEF m, Becomes, StackMachines
<1>7. Current'.sp = m.r["sp"] /\ Current'.bp = m.r["bp"]
  BY <1>6 DEF Current
<1>8. g \in Frames /\ SameCall(F, g) /\ g.entered /\ g.pushed = <<>> /\ g.caller = F.caller
  BY <1>1, <1>4 DEF Frames, SameCall
<1>9. SameUpTo(stack, stack', b, to)
  BY <1>4, <1>5, <1>6 DEF SameUpTo
<1>10. WorkHolds(g, Current', to, b, stack')
  <2>1. to <= Depth(b, m.r["sp"])
    <3>1. m.r["sp"] \in Ring
      BY <1>5 DEF StackMachines, Files
    <3>2. Depth(b, m.r["sp"]) \in Nat
      BY <1>1, <3>1, DepthIsNat
    <3>3. to + 1 <= Depth(b, m.r["sp"])
      BY <1>4, <1>5
    <3> HIDE DEF b, to
    <3> QED BY <1>1, <3>2, <3>3
  <2>2. PushedHolds(g.pushed, Current', to, b, stack')
    BY <1>8 DEF PushedHolds
  <2> HIDE DEF g
  <2> QED BY <1>4, <1>5, <1>6, <1>7, <1>8, <2>1, <2>2 DEF WorkHolds
<1>11. StackHolds(frames', Current', stack')
  <2> HIDE DEF g
  <2> QED BY <1>1, <1>3, <1>6, <1>8, <1>9, <1>10, WithinKeeps
<1>12. ReturnsToItsCaller'
  BY <1>3 DEF StackInv, ReturnsToItsCaller
<1> QED BY <1>6, <1>11, <1>12 DEF StackInv

\* LEAVE.
LEMMA LeaveKeeps ==
    ASSUME StackInv, LeaveFrame
    PROVE  StackInv'
<1> DEFINE b == BaseOf(frames)
           to == BottomOf(frames, Len(frames))
           g == [F EXCEPT !.entered = FALSE, !.pushed = <<>>]
           m == Leave(Now)
<1>1. /\ b \in Ring /\ Now \in StackMachines /\ Now.r = r /\ Now.s = stack
      /\ Current.sp = r["sp"] /\ Current.bp = r["bp"] /\ flags \in Int
      /\ F \in Frames /\ WorkHolds(F, Current, to, b, stack) /\ to \in Nat
  BY NowIs
<1>2. F.entered /\ Becomes(m) /\ frames' = WithF(g) /\ at' = at /\ flags' = flags /\ back' = back
  BY DEF LeaveFrame
<1>3. Depth(b, r["bp"]) = to + 1 /\ AtDepth(stack, b, to + 1) = F.caller.bp
  BY <1>1, <1>2 DEF WorkHolds
<1>4. F.caller.bp \in Ring
  BY <1>1 DEF Frames, Contexts
<1>5. /\ m \in StackMachines /\ m.s = stack /\ Depth(b, m.r["sp"]) = to /\ m.r["bp"] = F.caller.bp
  <2>1. 1 <= to + 1 /\ (to + 1) - 1 = to
    <3> HIDE DEF to
    <3> QED BY <1>1
  <2>2. 1 <= Depth(b, Now.r["bp"]) /\ AtDepth(Now.s, b, Depth(b, Now.r["bp"])) \in Ring
    BY <1>1, <1>3, <1>4, <2>1
  <2>3. /\ Leave(Now) \in StackMachines /\ Leave(Now).s = Now.s
        /\ Depth(b, Leave(Now).r["sp"]) = Depth(b, Now.r["bp"]) - 1
        /\ Leave(Now).r["bp"] = AtDepth(Now.s, b, Depth(b, Now.r["bp"]))
    <3> HIDE DEF b
    <3> QED BY <1>1, <2>2, LeavingIsUp
  <2> QED BY <1>1, <1>3, <2>1, <2>3
<1> HIDE DEF m
<1>6. r' = m.r /\ stack' = stack /\ r' \in Files /\ stack' \in [Ring -> Int]
  BY <1>2, <1>5 DEF Becomes, StackMachines
<1>7. Current'.sp = m.r["sp"] /\ Current'.bp = m.r["bp"]
  BY <1>6 DEF Current
<1>8. g \in Frames /\ SameCall(F, g) /\ ~g.entered /\ g.pushed = <<>> /\ g.caller = F.caller
  <2>1. <<>> \in Seq(SavedThings)
    OBVIOUS
  <2> QED BY <1>1, <2>1 DEF Frames, SameCall
<1>9. SameUpTo(stack, stack', b, to)
  BY <1>6 DEF SameUpTo
<1>10. WorkHolds(g, Current', to, b, stack')
  <2>1. to <= Depth(b, m.r["sp"])
    <3> HIDE DEF to
    <3> QED BY <1>1, <1>5
  <2> HIDE DEF g
  <2> QED BY <1>5, <1>7, <1>8, <2>1 DEF WorkHolds
<1>11. StackHolds(frames', Current', stack')
  <2> HIDE DEF g
  <2> QED BY <1>1, <1>2, <1>6, <1>8, <1>9, <1>10, WithinKeeps
<1>12. ReturnsToItsCaller'
  BY <1>2 DEF StackInv, ReturnsToItsCaller
<1> QED BY <1>6, <1>11, <1>12 DEF StackInv

\* One thing more is saved on top of the others.
LEMMA SavedOnTop ==
    ASSUME NEW q \in Seq(SavedThings), NEW e \in SavedThings, NEW to \in Nat, NEW b \in Ring,
           NEW h, NEW h2, h.sp \in Ring, e.sp = h.sp, h2.bp = h.bp,
           NEW s, NEW t, SameUpTo(s, t, b, Depth(b, h.sp)),
           Depth(b, h2.sp) = Depth(b, h.sp) + Size(e),
           PushedHolds(q, h, to, b, s), SavedHolds(e, h2, to, b, t)
    PROVE  PushedHolds(Append(q, e), h2, to, b, t)
<1> DEFINE n == Len(q)
           q2 == Append(q, e)
           d0 == Depth(b, h.sp)
<1>1. n \in Nat /\ Len(q2) = n + 1 /\ q2[n + 1] = e /\ \A i \in 1 .. n : q2[i] = q[i] /\ q[i] \in SavedThings
  OBVIOUS
<1>2. d0 \in Nat /\ Depth(b, e.sp) = d0 /\ Depth(b, h2.sp) = d0 + Size(e) /\ Size(e) \in Nat
  BY DepthIsNat DEF Size
<1> HIDE DEF q2, n, d0
<1>3. ASSUME NEW i \in 1 .. n + 1 PROVE i \in 1 .. n \/ i = n + 1
  BY <1>1
<1>4. ASSUME NEW i \in 1 .. n
      PROVE  /\ Depth(b, q[i].sp) \in Nat /\ Size(q[i]) \in Nat
             /\ Depth(b, q[i].sp) + Size(q[i]) <= d0 /\ SavedHolds(q[i], h, to, b, s)
  <2>1. SavedHolds(q[i], h, to, b, s)
    BY DEF PushedHolds, n
  <2> DEFINE w == q[i]
  <2>2. w \in SavedThings
    BY <1>1
  <2> HIDE DEF w
  <2>3. w.sp \in Ring
    BY <2>2 DEF SavedThings
  <2>4. Depth(b, w.sp) \in Nat
    BY <2>3, DepthIsNat
  <2> QED BY <2>1, <2>4 DEF SavedHolds, Size, w, d0
<1>5. ASSUME NEW i \in 1 .. n + 1 PROVE SavedHolds(q2[i], h2, to, b, t)
  <2>1. CASE i = n + 1
    BY <1>1, <2>1
  <2>2. CASE i \in 1 .. n
    <3> DEFINE w == q[i]
    <3>1. w \in SavedThings /\ SavedHolds(w, h, to, b, s) /\ q2[i] = w
          /\ Depth(b, w.sp) + Size(w) <= d0 /\ Depth(b, w.sp) + Size(w) \in Nat
      BY <1>1, <1>4, <2>2
    <3> HIDE DEF w
    <3>2. Depth(b, w.sp) + Size(w) <= Depth(b, h2.sp)
      BY <1>2, <3>1
    <3>3. SameUpTo(s, t, b, d0)
      BY DEF d0
    <3> QED BY <1>2, <3>1, <3>2, <3>3, SavedKept
  <2> QED BY <1>3, <2>1, <2>2
<1>6. ASSUME NEW i \in 1 .. n + 1, NEW j \in 1 .. n + 1, i < j
      PROVE  Beneath(b, q2[i], q2[j]) /\ (j = i + 1 => OnTop(b, q2[i], q2[j]))
  <2>1. i \in 1 .. n
    BY <1>1, <1>6
  <2>2. CASE j = n + 1
    <3>1. Beneath(b, q[i], e)
      BY <1>2, <1>4, <2>1 DEF Beneath
    <3>2. ASSUME j = i + 1 PROVE OnTop(b, q[i], e)
      <4>1. i = n /\ q # <<>>
        BY <1>1, <2>1, <2>2, <3>2 DEF n
      <4>2. OnTop(b, q[n], h)
        BY <4>1 DEF PushedHolds, n
      <4> QED BY <4>1, <4>2 DEF OnTop
    <3> QED BY <1>1, <2>1, <2>2, <3>1, <3>2
  <2>3. CASE j \in 1 .. n
    <3>1. Beneath(b, q[i], q[j]) /\ (j = i + 1 => OnTop(b, q[i], q[j]))
      BY <1>6, <2>1, <2>3 DEF PushedHolds, n
    <3> QED BY <1>1, <2>1, <2>3, <3>1
  <2> QED BY <1>3, <2>2, <2>3
<1>7. OnTop(b, q2[Len(q2)], h2)
  BY <1>1, <1>2 DEF OnTop
<1> QED BY <1>1, <1>5, <1>6, <1>7 DEF PushedHolds, q2

\* The last of what was saved is taken.
LEMMA SavedTaken ==
    ASSUME NEW q \in Seq(SavedThings), q # <<>>, NEW to \in Nat, NEW b \in Ring,
           NEW h, NEW h2, h2.sp = q[Len(q)].sp, h2.bp = h.bp, NEW s,
           PushedHolds(q, h, to, b, s)
    PROVE  PushedHolds(Front(q), h2, to, b, s) /\ to + 1 <= Depth(b, h2.sp)
<1> DEFINE n == Len(q)
           q2 == Front(q)
<1>1. n \in Nat /\ n >= 1 /\ \A i \in 1 .. n : q[i] \in SavedThings
  OBVIOUS
<1>2. Len(q2) = n - 1 /\ \A i \in 1 .. n - 1 : q2[i] = q[i]
  <2>1. q2 = SubSeq(q, 1, n - 1)
    BY DEF Front
  <2> HIDE DEF q2, n
  <2>2. n = Len(q) /\ 1 .. n - 1 \subseteq 1 .. n
    BY <1>1 DEF n
  <2> QED BY <1>1, <2>1, <2>2
<1> HIDE DEF q2
<1>3. n \in 1 .. n /\ \A i \in 1 .. n - 1 : i \in 1 .. n /\ i < n
  <2> HIDE DEF n
  <2> QED BY <1>1
<1>4. \A i \in 1 .. n : SavedHolds(q[i], h, to, b, s)
  BY DEF PushedHolds
<1>5. to + 1 <= Depth(b, h2.sp)
  BY <1>3, <1>4 DEF SavedHolds
<1>6. ASSUME NEW i \in 1 .. n - 1 PROVE SavedHolds(q2[i], h2, to, b, s)
  <2>1. Beneath(b, q[i], q[n]) /\ SavedHolds(q[i], h, to, b, s)
    BY <1>3, <1>4 DEF PushedHolds
  <2>2. Depth(b, q[i].sp) + Size(q[i]) <= Depth(b, h2.sp)
    BY <2>1 DEF Beneath
  <2> QED BY <1>2, <2>1, <2>2 DEF SavedHolds
<1>7. ASSUME NEW i \in 1 .. n - 1, NEW j \in 1 .. n - 1, i < j
      PROVE  Beneath(b, q2[i], q2[j]) /\ (j = i + 1 => OnTop(b, q2[i], q2[j]))
  <2>1. Beneath(b, q[i], q[j]) /\ (j = i + 1 => OnTop(b, q[i], q[j]))
    BY <1>3, <1>7 DEF PushedHolds
  <2> QED BY <1>2, <2>1
<1>8. ASSUME q2 # <<>> PROVE OnTop(b, q2[Len(q2)], h2)
  <2>1. n - 1 \in 1 .. n - 1
    <3>1. n # 1
      <4> SUFFICES ASSUME n = 1 PROVE FALSE
        OBVIOUS
      <4>1. q2 = SubSeq(q, 1, 0)
        BY DEF Front, q2
      <4> QED BY <1>8, <4>1
    <3> HIDE DEF n
    <3> QED BY <1>1, <3>1
  <2>2. (n - 1) + 1 = n /\ n - 1 < n /\ n - 1 \in 1 .. n
    <3> HIDE DEF n
    <3> QED BY <1>1, <2>1
  <2>3. OnTop(b, q[n - 1], q[n])
    BY <1>3, <2>1, <2>2 DEF PushedHolds
  <2> QED BY <1>2, <2>1, <2>3 DEF OnTop
<1>9. PushedHolds(q2, h2, to, b, s)
  <2> HIDE DEF n
  <2> QED BY <1>2, <1>6, <1>7, <1>8 DEF PushedHolds
<1> QED BY <1>5, <1>9 DEF q2

\* PUSHA, PUSHF and PUSH: what is saved is on top, of all that was.
LEMMA SaveWorks ==
    ASSUME StackInv, F.entered, NEW e \in SavedThings, e.sp = r["sp"],
           frames' = WithF([F EXCEPT !.pushed = Append(@, e)]),
           r' \in Files, r'["bp"] = r["bp"], flags' \in Int, at' = at, stack' \in [Ring -> Int],
           Depth(BaseOf(frames), r'["sp"]) = Depth(BaseOf(frames), r["sp"]) + Size(e),
           SameUpTo(stack, stack', BaseOf(frames), Depth(BaseOf(frames), r["sp"])),
           e.what = "flags" =>
              AtDepth(stack', BaseOf(frames), Depth(BaseOf(frames), r["sp"]) + 1) = e.held,
           e.what = "all" =>
              /\ e.held = r
              /\ \A i \in 1 .. 8 : AtDepth(stack', BaseOf(frames), Depth(BaseOf(frames), r["sp"]) + i)
                                     = r[Order[i]]
    PROVE  StackHolds(frames', Current', stack')
<1> DEFINE b == BaseOf(frames)
           d0 == Depth(b, r["sp"])
           to == BottomOf(frames, Len(frames))
           g == [F EXCEPT !.pushed = Append(@, e)]
<1>1. /\ b \in Ring /\ Current.sp = r["sp"] /\ Current.bp = r["bp"] /\ d0 \in Nat
      /\ F \in Frames /\ WorkHolds(F, Current, to, b, stack) /\ to \in Nat /\ r["sp"] \in Ring
  BY NowIs
<1>2. /\ Depth(b, r["bp"]) = to + 1 /\ to + 1 <= d0 /\ AtDepth(stack, b, to + 1) = F.caller.bp
      /\ PushedHolds(F.pushed, Current, to, b, stack)
  BY <1>1 DEF WorkHolds
<1>3. Current'.sp = r'["sp"] /\ Current'.bp = r["bp"]
  BY DEF Current
<1>4. F.pushed \in Seq(SavedThings)
  BY <1>1 DEF Frames
<1>5. /\ g \in Frames /\ SameCall(F, g) /\ g.entered /\ g.pushed = Append(F.pushed, e)
      /\ g.caller = F.caller
  <2>1. Append(F.pushed, e) \in Seq(SavedThings)
    BY <1>4
  <2> QED BY <1>1, <2>1 DEF Frames, SameCall
<1>6. SavedHolds(e, Current', to, b, stack')
  <2>1. Depth(b, e.sp) = d0 /\ Depth(b, Current'.sp) = d0 + Size(e)
    BY <1>3
  <2>2. d0 + Size(e) <= d0 + Size(e)
    <3>1. Size(e) \in Nat
      BY DEF Size
    <3> HIDE DEF d0
    <3> QED BY <1>1, <3>1
  <2>3. e.what = "all" => e.held["sp"] = e.sp /\ e.held["bp"] = Current'.bp
    BY <1>3
  <2>4. e.what = "flags" => AtDepth(stack', b, d0 + 1) = e.held
    OBVIOUS
  <2>5. e.what = "all" => \A i \in 1 .. 8 : AtDepth(stack', b, d0 + i) = e.held[Order[i]]
    OBVIOUS
  <2> HIDE DEF b, d0, to
  <2> QED BY <1>2, <2>1, <2>2, <2>3, <2>4, <2>5 DEF SavedHolds
<1>7. PushedHolds(g.pushed, Current', to, b, stack')
  <2>1. /\ Current.sp \in Ring /\ e.sp = Current.sp /\ Current'.bp = Current.bp
        /\ SameUpTo(stack, stack', b, Depth(b, Current.sp))
        /\ Depth(b, Current'.sp) = Depth(b, Current.sp) + Size(e)
    BY <1>1, <1>3
  <2>2. PushedHolds(Append(F.pushed, e), Current', to, b, stack')
    <3> HIDE DEF b, to, g
    <3> QED BY <1>1, <1>2, <1>4, <1>6, <2>1, SavedOnTop
  <2> QED BY <1>5, <2>2
<1>8. AtDepth(stack', b, to + 1) = F.caller.bp /\ SameUpTo(stack, stack', b, to)
  <2>1. SameUpTo(stack, stack', b, d0)
    OBVIOUS
  <2> HIDE DEF b, d0, to
  <2>2. to + 1 \in 0 .. d0 /\ 0 .. to \subseteq 0 .. d0
    BY <1>1, <1>2
  <2> QED BY <1>2, <2>1, <2>2 DEF SameUpTo
<1>9. to + 1 <= Depth(b, Current'.sp) /\ to <= Depth(b, Current'.sp)
  <2>1. Depth(b, Current'.sp) = d0 + Size(e) /\ Size(e) \in Nat
    BY <1>3 DEF Size
  <2> HIDE DEF b, d0, to
  <2> QED BY <1>1, <1>2, <2>1
<1>10. WorkHolds(g, Current', to, b, stack')
  <2> HIDE DEF g, b, to
  <2> QED BY <1>2, <1>3, <1>5, <1>7, <1>8, <1>9 DEF WorkHolds
<1> HIDE DEF g
<1>11. frames' = WithF(g)
  BY DEF g
<1> QED BY <1>5, <1>8, <1>10, <1>11, WithinKeeps

\* PUSHA, PUSHF and PUSH keep what was there and add what they save.
LEMMA SaveKeeps ==
    ASSUME StackInv, Save
    PROVE  StackInv'
<1> DEFINE b == BaseOf(frames)
           d0 == Depth(b, r["sp"])
<1>1. /\ b \in Ring /\ Now \in StackMachines /\ Now.r = r /\ Now.s = stack /\ d0 \in Nat
      /\ flags \in Int /\ r["sp"] \in Ring /\ F \in Frames
      /\ \A k : Room(k) <=> d0 + k < WORDS
  BY NowIs
<1>2. r \in Files /\ back.is = back.was
  BY DEF StackInv, ReturnsToItsCaller
<1>3. F.entered /\ at' = at /\ back' = back
  BY DEF Save, Begun
<1>4. CASE /\ Room(8 + 1)
           /\ Becomes([Pusha(Now) EXCEPT !.r = [x \in DOMAIN @ |->
                         IF x \in {"sp", "bp"} THEN @[x] ELSE 0]])
           /\ frames' = KeptWords("all", r) /\ flags' = flags
  <2> DEFINE m == Pusha(Now)
             e == [what |-> "all", held |-> r, sp |-> r["sp"]]
             f2 == [x \in DOMAIN m.r |-> IF x \in {"sp", "bp"} THEN m.r[x] ELSE 0]
  <2>1. /\ m \in StackMachines /\ Depth(b, m.r["sp"]) = d0 + 8 /\ m.r["bp"] = r["bp"]
        /\ \A i \in 1 .. 8 : AtDepth(m.s, b, d0 + i) = r[Order[i]]
        /\ \A d \in 0 .. d0 : AtDepth(m.s, b, d) = AtDepth(stack, b, d)
    <3>1. d0 + (8 + 1) < WORDS
      BY <1>1, <1>4
    <3>2. d0 + 8 < WORDS
      <4> HIDE DEF d0
      <4> QED BY <1>1, <3>1, RingIs
    <3>3. Depth(b, Now.r["sp"]) + 8 < WORDS
      BY <1>1, <3>2
    <3>4. /\ Pusha(Now) \in StackMachines
          /\ Depth(b, Pusha(Now).r["sp"]) = Depth(b, Now.r["sp"]) + 8 /\ Pusha(Now).r["bp"] = Now.r["bp"]
          /\ \A i \in 1 .. 8 : AtDepth(Pusha(Now).s, b, Depth(b, Now.r["sp"]) + i) = Now.r[Order[i]]
          /\ \A d \in 0 .. Depth(b, Now.r["sp"]) : AtDepth(Pusha(Now).s, b, d) = AtDepth(Now.s, b, d)
      <4> HIDE DEF b
      <4> QED BY <1>1, <3>3, SavingAllIsOnTop
    <3> QED BY <1>1, <3>4
  <2> HIDE DEF m
  <2>2. m.r \in [RegNames -> Int] /\ m.r["sp"] \in Ring /\ m.r["bp"] \in Ring /\ m.s \in [Ring -> Int]
        /\ m = [r |-> m.r, s |-> m.s]
    BY <2>1 DEF StackMachines, Files
  <2>3. [m EXCEPT !.r = f2] = [r |-> f2, s |-> m.s]
    <3> HIDE DEF f2
    <3> QED BY <2>2
  <2>4. r' = f2 /\ stack' = m.s
    <3>1. Becomes([m EXCEPT !.r = f2])
      BY <1>4 DEF m
    <3> HIDE DEF f2
    <3> QED BY <2>3, <3>1 DEF Becomes
  <2>5. f2 \in Files /\ f2["sp"] = m.r["sp"] /\ f2["bp"] = m.r["bp"]
    <3>1. f2 = [x \in RegNames |-> IF x \in {"sp", "bp"} THEN m.r[x] ELSE 0]
      BY <2>2
    <3>2. f2 \in [RegNames -> Int]
      BY <2>2, <3>1
    <3>3. f2["sp"] = m.r["sp"] /\ f2["bp"] = m.r["bp"]
      BY <3>1 DEF RegNames
    <3> HIDE DEF f2
    <3> QED BY <2>2, <3>2, <3>3 DEF Files
  <2> HIDE DEF f2
  <2>6. e \in SavedThings /\ e.sp = r["sp"] /\ e.what = "all" /\ e.held = r /\ Size(e) = 8
    BY <1>1, <1>2 DEF SavedThings, Size
  <2>7. frames' = WithF([F EXCEPT !.pushed = Append(@, e)])
    BY <1>4 DEF KeptWords
  <2> HIDE DEF e
  <2>8. StackHolds(frames', Current', stack')
    <3>1. r' \in Files /\ r'["bp"] = r["bp"] /\ Depth(b, r'["sp"]) = d0 + Size(e) /\ stack' \in [Ring -> Int]
          /\ flags' \in Int
      BY <1>1, <1>4, <2>1, <2>2, <2>4, <2>5, <2>6
    <3>2. SameUpTo(stack, stack', b, d0)
      BY <2>1, <2>4 DEF SameUpTo
    <3>3. \A i \in 1 .. 8 : AtDepth(stack', b, d0 + i) = r[Order[i]]
      BY <2>1, <2>4
    <3>4. e.what # "flags"
      BY <2>6
    <3> QED BY <1>3, <2>6, <2>7, <3>1, <3>2, <3>3, <3>4, SaveWorks
  <2> QED BY <1>2, <1>3, <2>4, <2>5, <2>8 DEF StackInv, ReturnsToItsCaller
<1>5. CASE /\ Room(1 + 1) /\ Becomes(Push(Now, flags)) /\ flags' = 1 - flags
           /\ frames' = KeptWords("flags", flags)
  <2> DEFINE one == <<flags>>
             m == PushAll(Now, one)
             e == [what |-> "flags", held |-> flags, sp |-> r["sp"]]
  <2>1. one \in Seq(Int) /\ Len(one) = 1 /\ one[1] = flags
    BY <1>1
  <2>2. Becomes(m)
    BY <1>5 DEF Push
  <2> HIDE DEF one
  <2>3. /\ m \in StackMachines /\ Depth(b, m.r["sp"]) = d0 + 1
        /\ \A x \in RegNames : x # "sp" => m.r[x] = r[x]
        /\ \A d \in 0 .. WORDS - 1 :
              AtDepth(m.s, b, d) = IF d \in d0 + 1 .. d0 + 1 THEN one[d - d0] ELSE AtDepth(stack, b, d)
    <3>1. d0 + (1 + 1) < WORDS
      BY <1>1, <1>5
    <3>2. d0 + 1 < WORDS
      <4> HIDE DEF d0
      <4> QED BY <1>1, <3>1, RingIs
    <3>3. Depth(b, Now.r["sp"]) + Len(one) < WORDS
      BY <1>1, <2>1, <3>2
    <3>4. PushedOn(m, Now, one, b)
      <4>1. Now \in StackMachines /\ b \in Ring /\ one \in Seq(Int)
        BY <1>1, <2>1
      <4> HIDE DEF b
      <4> QED BY <3>3, <4>1, PushingIsOnTop
    <3> HIDE DEF m
    <3> QED BY <1>1, <2>1, <3>4 DEF PushedOn
  <2> HIDE DEF m
  <2>4. r' = m.r /\ stack' = m.s /\ r' \in Files /\ stack' \in [Ring -> Int] /\ r'["bp"] = r["bp"]
    BY <2>2, <2>3 DEF Becomes, StackMachines, RegNames
  <2>5. e \in SavedThings /\ e.sp = r["sp"] /\ e.what = "flags" /\ e.held = flags /\ Size(e) = 1
    BY <1>1 DEF SavedThings, Size
  <2>6. frames' = WithF([F EXCEPT !.pushed = Append(@, e)])
    BY <1>5 DEF KeptWords
  <2> HIDE DEF e
  <2>7. StackHolds(frames', Current', stack')
    <3>1. SameUpTo(stack, stack', b, d0) /\ AtDepth(stack', b, d0 + 1) = flags
      <4> HIDE DEF d0
      <4>1. d0 + 1 < WORDS
        <5>1. d0 + (1 + 1) < WORDS
          BY <1>1, <1>5
        <5> QED BY <1>1, <5>1, RingIs
      <4>2. d0 + 1 \in 0 .. WORDS - 1 /\ d0 + 1 \in d0 + 1 .. d0 + 1 /\ (d0 + 1) - d0 = 1
        BY <1>1, <4>1, RingIs
      <4>3. \A d \in 0 .. d0 : d \in 0 .. WORDS - 1 /\ d \notin d0 + 1 .. d0 + 1
        BY <1>1, <4>1, RingIs
      <4> QED BY <2>1, <2>3, <2>4, <4>2, <4>3 DEF SameUpTo
    <3>2. Depth(b, r'["sp"]) = d0 + Size(e) /\ flags' \in Int
      BY <1>1, <1>5, <2>3, <2>4, <2>5
    <3>3. e.what # "all"
      BY <2>5
    <3> QED BY <1>3, <2>4, <2>5, <2>6, <3>1, <3>2, <3>3, SaveWorks
  <2> QED BY <1>2, <1>3, <2>4, <2>7 DEF StackInv, ReturnsToItsCaller
<1> QED BY <1>4, <1>5 DEF Save

\* POPA, POPF and POP: what was saved comes back.
LEMMA RestoreKeeps ==
    ASSUME StackInv, Restore
    PROVE  StackInv'
<1> DEFINE b == BaseOf(frames)
           d0 == Depth(b, r["sp"])
           to == BottomOf(frames, Len(frames))
           q == F.pushed
           e == q[Len(q)]
           de == Depth(b, e.sp)
           g == [F EXCEPT !.pushed = Front(@)]
<1>1. /\ b \in Ring /\ Now \in StackMachines /\ Now.r = r /\ Now.s = stack /\ d0 \in Nat
      /\ Current.sp = r["sp"] /\ Current.bp = r["bp"] /\ flags \in Int
      /\ F \in Frames /\ WorkHolds(F, Current, to, b, stack) /\ to \in Nat /\ r["sp"] \in Ring
      /\ r["bp"] \in Ring
  BY NowIs
<1>2. /\ F.entered /\ q # <<>> /\ frames' = WithF(g) /\ at' = at
      /\ IF e.what = "all" THEN Becomes(Popa(Now)) /\ flags' = flags
         ELSE Becomes(Drop(Now, 1)) /\ flags' = Word(Now, 0)
      /\ back' = IF e.what = "all" THEN [is |-> r', was |-> e.held]
                 ELSE [is |-> flags', was |-> e.held]
  BY DEF Restore, Last
<1>3. /\ Depth(b, r["bp"]) = to + 1 /\ AtDepth(stack, b, to + 1) = F.caller.bp
      /\ PushedHolds(q, Current, to, b, stack)
  BY <1>1, <1>2 DEF WorkHolds
<1>4. q \in Seq(SavedThings) /\ Len(q) \in 1 .. Len(q) /\ e \in SavedThings
  <2>1. q \in Seq(SavedThings)
    BY <1>1 DEF Frames
  <2> HIDE DEF q
  <2> QED BY <1>2, <2>1
<1>5. SavedHolds(e, Current, to, b, stack) /\ d0 = de + Size(e)
  BY <1>1, <1>2, <1>3, <1>4 DEF PushedHolds, OnTop
<1>6. e.sp \in Ring /\ de \in Nat
  <2>1. e.sp \in Ring
    <3> HIDE DEF e
    <3> QED BY <1>4 DEF SavedThings
  <2> QED BY <1>1, <2>1, DepthIsNat
<1> HIDE DEF e, q
<1>7. /\ r' \in Files /\ stack' = stack /\ flags' \in Int /\ r'["sp"] = e.sp /\ r'["bp"] = r["bp"]
      /\ back'.is = back'.was
  <2>1. CASE e.what = "all"
    <3>1. e.held \in Files /\ e.held["sp"] = e.sp /\ e.held["bp"] = r["bp"] /\ Size(e) = 8
          /\ \A i \in 1 .. 8 : AtDepth(stack, b, de + i) = e.held[Order[i]]
      BY <1>1, <1>4, <1>5, <2>1 DEF SavedHolds, SavedThings, Size
    <3>2. Popa(Now).r = e.held /\ Popa(Now).s = stack
      <4> DEFINE x == e.held
      <4>1. /\ x \in Files /\ Depth(b, Now.r["sp"]) = Depth(b, x["sp"]) + 8
            /\ \A i \in 1 .. 8 : AtDepth(Now.s, b, Depth(b, x["sp"]) + i) = x[Order[i]]
        BY <1>1, <1>5, <3>1
      <4> HIDE DEF x, b
      <4>2. Popa(Now).r = x /\ Popa(Now).s = Now.s
        BY <1>1, <4>1, RestoringAll
      <4> QED BY <1>1, <4>2 DEF x
    <3> QED BY <1>1, <1>2, <2>1, <3>1, <3>2 DEF Becomes
  <2>2. CASE e.what # "all"
    <3>1. e.what = "flags" /\ e.held \in Int /\ Size(e) = 1
      BY <1>4, <2>2 DEF SavedThings, Size
    <3>2. AtDepth(stack, b, de + 1) = e.held
      BY <1>5, <3>1 DEF SavedHolds
    <3> DEFINE m == Drop(Now, 1)
    <3>3. 1 \in Nat /\ 0 \in Nat /\ 0 <= d0 /\ 1 <= d0 /\ d0 - 1 = de /\ d0 - 0 = de + 1 /\ d0 = de + 1
      <4>1. d0 = de + 1
        BY <1>5, <3>1
      <4> HIDE DEF d0, de
      <4> QED BY <1>6, <4>1
    <3>4. Word(Now, 0) = e.held
      <4>1. Word(Now, 0) = AtDepth(Now.s, b, Depth(b, Now.r["sp"]) - 0)
        <5>1. 0 <= Depth(b, Now.r["sp"])
          BY <1>1, <3>3
        <5> HIDE DEF b
        <5> QED BY <1>1, <3>3, <5>1, WordIsAtDepth
      <4> QED BY <1>1, <3>2, <3>3, <4>1
    <3>5. /\ m \in StackMachines /\ m.s = stack /\ Depth(b, m.r["sp"]) = de
          /\ m.r["bp"] = r["bp"]
      <4>1. 1 <= Depth(b, Now.r["sp"])
        BY <1>1, <3>3
      <4>2. /\ Drop(Now, 1) \in StackMachines /\ Drop(Now, 1).s = Now.s
            /\ Depth(b, Drop(Now, 1).r["sp"]) = Depth(b, Now.r["sp"]) - 1
            /\ \A x \in RegNames : x # "sp" => Drop(Now, 1).r[x] = Now.r[x]
        <5> HIDE DEF b
        <5> QED BY <1>1, <3>3, <4>1, WordIsAtDepth
      <4>3. Depth(b, m.r["sp"]) = de
        BY <1>1, <3>3, <4>2
      <4> QED BY <1>1, <4>2, <4>3 DEF RegNames
    <3> HIDE DEF m
    <3>6. m.r \in Files /\ m.r["sp"] = e.sp
      <4>1. m.r \in Files /\ m.r["sp"] \in Ring
        BY <3>5 DEF StackMachines, Files
      <4>2. Depth(b, m.r["sp"]) = Depth(b, e.sp)
        BY <3>5
      <4> QED BY <1>1, <1>6, <4>1, <4>2, DepthNames
    <3>7. Becomes(m) /\ flags' = Word(Now, 0) /\ back' = [is |-> flags', was |-> e.held]
      BY <1>2, <2>2 DEF m
    <3> QED BY <3>1, <3>4, <3>5, <3>6, <3>7 DEF Becomes
  <2> QED BY <2>1, <2>2
<1>8. Current'.sp = e.sp /\ Current'.bp = Current.bp
  BY <1>1, <1>7 DEF Current
<1>9. PushedHolds(Front(q), Current', to, b, stack) /\ to + 1 <= Depth(b, Current'.sp)
  <2>1. Current'.sp = q[Len(q)].sp
    BY <1>8 DEF e
  <2> HIDE DEF b, to
  <2> QED BY <1>1, <1>2, <1>3, <1>4, <1>8, <2>1, SavedTaken
<1>10. /\ g \in Frames /\ SameCall(F, g) /\ g.entered /\ g.pushed = Front(q) /\ g.caller = F.caller
  <2>1. Front(q) \in Seq(SavedThings)
    <3>1. Front(q) = SubSeq(q, 1, Len(q) - 1)
      BY DEF Front
    <3> QED BY <1>2, <1>4, <3>1
  <2>2. Front(F.pushed) \in Seq(SavedThings)
    BY <2>1 DEF q
  <2> QED BY <1>1, <1>2, <2>2 DEF Frames, SameCall, q
<1>11. WorkHolds(g, Current', to, b, stack')
  <2>1. to <= Depth(b, Current'.sp)
    <3>1. Depth(b, Current'.sp) \in Nat
      BY <1>1, <1>6, <1>8, DepthIsNat
    <3> HIDE DEF b, to
    <3> QED BY <1>1, <1>9, <3>1
  <2>2. Depth(b, Current'.bp) = to + 1
    BY <1>1, <1>3, <1>8
  <2> HIDE DEF g, b, to
  <2> QED BY <1>3, <1>7, <1>9, <1>10, <2>1, <2>2 DEF WorkHolds
<1> HIDE DEF g
<1>12. StackHolds(frames', Current', stack')
  <2>1. SameUpTo(stack, stack', b, to) /\ stack' \in [Ring -> Int]
    BY <1>1, <1>7 DEF SameUpTo, StackMachines
  <2> QED BY <1>2, <1>7, <1>10, <1>11, <2>1, WithinKeeps
<1> QED BY <1>7, <1>12 DEF StackInv, ReturnsToItsCaller

\* The guest begins with nothing called and nothing saved.
LEMMA StackBegins == StackInit(Files) => StackInv
<1> SUFFICES ASSUME StackInit(Files) PROVE StackInv
  OBVIOUS
<1> DEFINE f == [far |-> FALSE, args |-> 0, iret |-> FALSE, entered |-> FALSE, pushed |-> <<>>,
                 caller |-> [at |-> at, sp |-> r["sp"], bp |-> r["bp"], flags |-> flags]]
<1>1. /\ r \in Files /\ flags = 0 /\ at \in Places /\ stack = [w \in Ring |-> 0]
      /\ frames = <<f>> /\ back = [is |-> 0, was |-> 0]
  BY DEF StackInit
<1>2. Current \in Contexts /\ f.caller = Current /\ Current.sp = r["sp"] /\ Current.bp = r["bp"]
      /\ r["sp"] \in Ring
  BY <1>1, CpuStackConstants DEF Current, Contexts, Files
<1>3. f \in Frames /\ ~f.entered /\ f.pushed = <<>>
  <2>1. <<>> \in Seq(SavedThings)
    OBVIOUS
  <2> QED BY <1>2, <2>1 DEF Frames
<1> HIDE DEF f
<1>4. /\ frames \in Seq(Frames) /\ frames # <<>> /\ Len(frames) = 1 /\ frames[1] = f
  BY <1>1, <1>3
<1>5. BaseOf(frames) = r["sp"] /\ BottomOf(frames, 1) = 0 /\ Context(frames, Current, 1) = Current
  BY <1>2, <1>4 DEF BaseOf, BottomOf, Context
<1>6. Depth(r["sp"], r["sp"]) = 0
  BY <1>2, DepthOfStart
<1>7. WorkHolds(f, Current, 0, r["sp"], stack)
  BY <1>2, <1>3, <1>6 DEF WorkHolds
<1>8. stack \in [Ring -> Int]
  BY <1>1
<1>9. \A k \in 1 .. Len(frames) : k = 1
  BY <1>4
<1>10. \A k \in 2 .. Len(frames) : FALSE
  BY <1>4
<1>11. StackHolds(frames, Current, stack)
  BY <1>2, <1>4, <1>5, <1>6, <1>7, <1>8, <1>9, <1>10 DEF StackHolds
<1> QED BY <1>1, <1>11 DEF StackInv, ReturnsToItsCaller

\* Every instruction keeps all of it.
LEMMA StackInvKeeps == StackInv /\ [StackNext]_stackVars => StackInv'
<1> SUFFICES ASSUME StackInv, [StackNext]_stackVars PROVE StackInv'
  OBVIOUS
<1>1. ASSUME NEW far \in BOOLEAN, NEW iret \in BOOLEAN, NEW args \in 0 .. MostArgs,
             Call(far, args, iret)
      PROVE  StackInv'
  BY <1>1, CallKeeps
<1>2. CASE Return
  BY <1>2, ReturnKeeps
<1>3. CASE EnterFrame
  BY <1>3, EnterKeeps
<1>4. CASE LeaveFrame
  BY <1>4, LeaveKeeps
<1>5. CASE Save
  BY <1>5, SaveKeeps
<1>6. CASE Restore
  BY <1>6, RestoreKeeps
<1>7. CASE UNCHANGED stackVars
  BY <1>7 DEF stackVars, StackInv, StackHolds, Current, ReturnsToItsCaller
<1> QED BY <1>1, <1>2, <1>3, <1>4, <1>5, <1>6, <1>7 DEF StackNext

\* cpu.c: a return goes to where its call was made, with SP and BP as they were, through
\* calls near and far and returns that take arguments and flags, frames of ENTER and
\* LEAVE, and whatever is saved in between, which comes back as it was: for a stack of
\* any size, wherever SP wraps, and calls as deep as there is room for.
THEOREM AlwaysReturnsToItsCaller == StackSpecification => []ReturnsToItsCaller
<1>1. StackInv => ReturnsToItsCaller
  BY DEF StackInv
<1> QED BY <1>1, StackBegins, StackInvKeeps, PTL DEF StackSpecification
=============================================================================
