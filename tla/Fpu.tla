-------------------------------- MODULE Fpu --------------------------------
(***************************************************************************)
(* The guest's x87 (fpu.c): its registers, their tags, the top of the stack *)
(* and the status word.  What an operation works out is SoftFloat's: here a  *)
(* value is a number below VAL, and an operation leaves any of them.  No     *)
(* instruction looks whether the registers it reads hold anything.           *)
(***************************************************************************)
EXTENDS Integers

CONSTANTS NREG,            \* registers, 8 of the x87
          VAL,             \* values are 0 .. VAL - 1
          MostFpu          \* bound: instructions

ASSUME FpuConstants == NREG \in Nat /\ NREG > 1 /\ VAL \in Nat /\ VAL > 1 /\ MostFpu \in Nat

VARIABLES st,              \* the registers, by their own numbers
          tags,            \* of each: "valid", "zero", "empty"
          fpuTop,
          sw,              \* of the status word: C1, IE and SF
          environment,     \* what FSTENV last stored; at first, what FNINIT leaves
          fpuSteps

fpuVars == <<st, tags, fpuTop, sw, environment, fpuSteps>>

Regs == 0 .. NREG - 1
Numbers == 0 .. VAL - 1
Tags == {"valid", "zero", "empty"}

\* The machine an instruction starts from, and leaves.
Fpu == [st |-> st, tags |-> tags, top |-> fpuTop, sw |-> sw]
Leaves(m) == st' = m.st /\ tags' = m.tags /\ fpuTop' = m.top /\ sw' = m.sw

\* A sum of two of them, cut to a register's number.
Around(n) == IF n < NREG THEN n ELSE n - NREG
Phys(m, i) == Around(m.top + i)
StGet(m, i) == m.st[Phys(m, i)]
TagOf(v) == IF v = 0 THEN "zero" ELSE "valid"
StSet(m, i, v) == [st   |-> [m.st EXCEPT ![Phys(m, i)] = v],
                   tags |-> [m.tags EXCEPT ![Phys(m, i)] = TagOf(v)],
                   top  |-> m.top, sw |-> m.sw]
Moved(m, d) == [m EXCEPT !.top = Around(m.top + d)]
Said(m, cc, raised) == [m EXCEPT !.sw = (m.sw \ cc) \cup raised]
Emptied(m, i) == [m EXCEPT !.tags = [m.tags EXCEPT ![Phys(m, i)] = "empty"]]

FpuPush(m, v) ==
    LET n == Moved(m, NREG - 1)
    IN  StSet(IF n.tags[n.top] # "empty" THEN Said(n, {}, {"C1", "IE", "SF"}) ELSE n, 0, v)
C1Clear(m) == Said(m, {"C1"}, {})

\* A mistake it could have made: the register the pop arrives at is emptied.
DiscardNext(m) == Emptied(Moved(m, 1), 0)
FpuDiscard(m) == Moved(Emptied(m, 0), 1)

\* What a backend reports goes in: it defines C1, and may raise IE.
Commit(m, raised) == Said(m, {"C1"}, raised)
Reports == {{}, {"C1"}, {"IE"}}

FpuReset == [st |-> [p \in Regs |-> 0], tags |-> [p \in Regs |-> "empty"], top |-> 0, sw |-> {}]

---------------------------------------------------------------------------
(* Instructions *)

Kept == UNCHANGED environment

\* FLD of memory or a number, FILD, the constants; FLD ST(i).
Load ==
    \/ \E v \in Numbers, e \in Reports : Leaves(FpuPush(Commit(Fpu, e), v))
    \/ \E i \in Regs : Leaves(FpuPush(C1Clear(Fpu), StGet(Fpu, i)))

\* D8 to DE with memory or a register, and the group on ST(0): into ST(i), and for
\* DE a pop.
Arith ==
    \E i \in Regs, v \in Numbers, e \in Reports, pop \in BOOLEAN :
       LET m == StSet(Commit(Fpu, e), i, v) IN Leaves(IF pop THEN FpuDiscard(m) ELSE m)

\* FCOM, FUCOM, FTST, FXAM, and FST and FIST of memory: with no pop, one or two.
Comparison ==
    \E e \in Reports :
       LET m == Commit(Fpu, e)
       IN  Leaves(m) \/ Leaves(FpuDiscard(m)) \/ Leaves(FpuDiscard(FpuDiscard(m)))

\* FST and FSTP of a register.
Store ==
    \E i \in Regs, pop \in BOOLEAN :
       LET m == C1Clear(StSet(Fpu, i, StGet(Fpu, 0)))
       IN  Leaves(IF pop THEN FpuDiscard(m) ELSE m)

Fxch ==
    \E i \in Regs :
       Leaves(C1Clear(StSet(StSet(Fpu, 0, StGet(Fpu, i)), i, StGet(Fpu, 0))))

\* FYL2X, FPATAN: a pop, then the result into ST(0); FPTAN, FXTRACT: the one into
\* ST(0), the other pushed.
Special ==
    \/ \E v \in Numbers, e \in Reports : Leaves(StSet(Commit(FpuDiscard(Fpu), e), 0, v))
    \/ \E v, w \in Numbers, e \in Reports : Leaves(FpuPush(StSet(Commit(Fpu, e), 0, v), w))

\* FINCSTP, FDECSTP, FFREE, FNCLEX and FNINIT.
Stepped ==
    \/ Leaves(C1Clear(Moved(Fpu, 1)))
    \/ Leaves(C1Clear(Moved(Fpu, NREG - 1)))
    \/ \E i \in Regs : Leaves(C1Clear(Emptied(Fpu, i)))
    \/ Leaves(Said(Fpu, {"IE", "SF"}, {}))
    \/ Leaves(FpuReset)

StoreEnvironment ==
    environment' = [tags |-> tags, top |-> fpuTop, sw |-> sw] /\ UNCHANGED <<st, tags, fpuTop, sw>>
LoadEnvironment ==
    /\ st' = st /\ tags' = environment.tags
    /\ fpuTop' = environment.top /\ sw' = environment.sw
    /\ Kept

FpuInit ==
    /\ st = FpuReset.st /\ tags = FpuReset.tags /\ fpuTop = 0 /\ sw = {}
    /\ environment = [tags |-> FpuReset.tags, top |-> 0, sw |-> {}]
    /\ fpuSteps = 0

Instruction ==
    \/ Kept /\ (Load \/ Arith \/ Comparison \/ Store \/ Fxch \/ Special \/ Stepped)
    \/ StoreEnvironment \/ LoadEnvironment
FpuNext == Instruction /\ fpuSteps < MostFpu /\ fpuSteps' = fpuSteps + 1
FpuSpecification == FpuInit /\ [][FpuNext]_fpuVars

---------------------------------------------------------------------------

SW == SUBSET {"C1", "IE", "SF"}
FpuTypeOK ==
    /\ st \in [Regs -> Numbers] /\ tags \in [Regs -> Tags] /\ fpuTop \in Regs /\ sw \in SW
    /\ environment \in [tags : [Regs -> Tags], top : Regs, sw : SW]
    /\ fpuSteps \in 0 .. MostFpu

\* ST(0) and up, as the guest sees them.
View(m) == [i \in Regs |-> [v |-> StGet(m, i), free |-> m.tags[Phys(m, i)] = "empty"]]

\* The registers, their tags and the top are, to the guest, a stack that turns:
\* what was pushed stays under what is pushed after it, a pop frees the one it
\* takes and no other, and an overflow is told until it is cleared.
Seen == INSTANCE FpuSpec
    WITH N <- NREG, Vals <- Numbers, overflowed <- "SF" \in sw,
         slots <- View(Fpu)
StackSeen == Seen!SpecSpec
=============================================================================
