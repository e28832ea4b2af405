------------------------------ MODULE Natives -------------------------------
(***************************************************************************)
(* The native routines of native.c: C code patched over the hottest guest  *)
(* code.  The module follows one routine that runs part of a guest loop    *)
(* (scan_loop) and one that runs a whole guest function (byte_at_3e), from *)
(* the patching of a freshly loaded program, through the dispatch of the   *)
(* opcode 0xD6, a routine's taking of an iteration or declining it, to the *)
(* replay that --verify-native makes of every so many hits.                *)
(*                                                                         *)
(* natcpu is the machine with the routines in it.  natplain is the machine *)
(* that never had them, brought along by as many steps of the interpreter  *)
(* as the routine says it took: the two must stay alike.                   *)
(*                                                                         *)
(* The guest code is the one docs/natives.md shows: a loop over points     *)
(* that keeps the nearest, then the call of a byte accessor.  A register   *)
(* or a memory word the routines are answerable for is a field of the      *)
(* machine; `below' and `frame' are words under the stack pointer, which   *)
(* no guest code can read back.                                            *)
(***************************************************************************)
EXTENDS Integers, Sequences, FiniteSetsExt

CONSTANTS
    NoSite,       \* an empty entry of the table of sites
    NatSels,      \* the selectors segments are loaded at
    NatSlots,     \* how many entries the table has (256 in the code)
    NatSlotFns,   \* what nat_slot may make of the addresses
    Scenes,       \* [pts, x0, y0]: the points walked and the one they are measured from
    HalfWord,     \* a guest word is -HalfWord..HalfWord-1 (32768)
    FarBest,      \* the squared distance the guest starts from
    Everys,       \* arguments of --verify-native; 0 is none
    Routines,     \* the scan routines there can be: "right" and faulty ones
    Budget,       \* steps a replay may take (4000000 in the code)
    MostScans,    \* calls of the guest function for each load
    MostPatched   \* loads of the program

ASSUME NativesAssumption ==
    /\ HalfWord \in Nat /\ Budget \in Nat
    /\ NatSlots \in Nat /\ NatSlots > 2
    /\ Cardinality(NatSels) >= 2 /\ 0 \notin NatSels
    /\ Routines \subseteq {"right", "sloppy", "greedy", "eager"}

VARIABLES
    natcpu,     \* the machine with the routines
    natplain,   \* the machine without
    natstate,   \* "running", "fault" or "badop"
    natmap,     \* slot -> site, the table the dispatch looks in
    sites,      \* site -> [sel, installed, hits]: what native_install filled in
    replay,     \* the check in progress, or its absence
    setting     \* what does not change while the guest runs

natvars == <<natcpu, natplain, natstate, natmap, sites, replay, setting>>

SiteNames == {"scan_loop", "byte_at_3e"}

(* The guest address a site is at: its segment and the place within it.    *)
SitePlace == [scan_loop |-> "head", byte_at_3e |-> "accessor"]

NatWrap(n) == ((n + HalfWord) % (2 * HalfWord)) - HalfWord

NotReplaying == [on |-> FALSE]

---------------------------------------------------------------------------
(* The guest's own code, one step per stretch of instructions that the     *)
(* routine and the replay cannot stop within.                              *)

NatPoint(i) == setting.scene.pts[i + 1]
NatCount == Len(setting.scene.pts)
OffX(i) == NatWrap(setting.scene.x0 - NatPoint(i)[1])
OffY(i) == NatWrap(setting.scene.y0 - NatPoint(i)[2])

GuestHead(m) == [m EXCEPT !.dy = OffY(m.si), !.pc = "measure"]

GuestMeasure(m) ==
    LET d == OffX(m.si)
    IN  [m EXCEPT !.eax = d * d, !.ecx = d, !.edx = 0, !.sq = d * d, !.below = d,
                  !.fl = <<d * d, m.best>>,
                  !.pc = IF d * d > m.best THEN "next" ELSE "nearer"]

GuestNearer(m) ==
    LET sum == m.eax + (m.dy * m.dy)
    IN  [m EXCEPT !.eax = sum, !.edx = m.dy, !.fl = <<sum, m.best>>, !.pc = "next",
                  !.best = IF sum < m.best THEN sum ELSE @,
                  !.near = IF sum < m.best THEN m.di ELSE @]

GuestNext(m) ==
    [m EXCEPT !.si = @ + 1, !.di = @ + 1, !.fl = <<m.di + 1, NatCount>>,
              !.pc = IF m.di + 1 < NatCount THEN "head" ELSE "scanned"]

(* The loop's exit calls the accessor with the index of the nearest.       *)
GuestScanned(m) == [m EXCEPT !.bx = m.near, !.pc = "accessor"]

GuestAccessor(m) == [m EXCEPT !.frame = <<m.si, m.di>>, !.pc = "fetch"]

GuestFetch(m) == [m EXCEPT !.eax = NatPoint(m.bx)[1], !.pc = "api"]

Interpret(m) ==
    CASE m.pc = "head"     -> GuestHead(m)
      [] m.pc = "measure"  -> GuestMeasure(m)
      [] m.pc = "nearer"   -> GuestNearer(m)
      [] m.pc = "next"     -> GuestNext(m)
      [] m.pc = "scanned"  -> GuestScanned(m)
      [] m.pc = "accessor" -> GuestAccessor(m)
      [] m.pc = "fetch"    -> GuestFetch(m)

InterpretFor(m, n) ==
    LET after[i \in 0..n] == IF i = 0 THEN m ELSE Interpret(after[i - 1])
    IN  after[n]

---------------------------------------------------------------------------
(* The routines.  Each gives the machine it leaves and the steps it took,  *)
(* 0 of them when it declines.                                             *)

Declines(m) == [m |-> m, steps |-> 0]

(* The iterations that skip, up to the first that would not or to the end  *)
(* of the loop.  Nothing of an iteration that is not taken is left behind. *)
ScanTaken(m) ==
    LET left == IF NatCount > m.di THEN NatCount - m.di ELSE 1
        kept == {j \in 0..left - 1 : OffX(m.si + j) * OffX(m.si + j) <= m.best}
    IN  [k |-> IF kept = {} THEN left ELSE Min(kept), out |-> kept = {}]

\* A mistake it could have made: the offset of the iteration it declined
\* is in the frame.
ScanLeavesDy(m) ==
    LET t == ScanTaken(m)
        d == OffX(m.si + t.k - 1)
    IN  IF t.k = 0 THEN Declines(m)
        ELSE [m |-> [m EXCEPT !.eax = d * d, !.ecx = d, !.edx = 0,
                              !.sq = d * d, !.below = d,
                              !.dy = IF t.out THEN OffY(m.si + t.k - 1) ELSE OffY(m.si + t.k),
                              !.si = @ + t.k, !.di = @ + t.k,
                              !.fl = <<m.di + t.k, NatCount>>,
                              !.pc = IF t.out THEN "scanned" ELSE "head"],
              steps |-> 3 * t.k]

ScanLoop(m) ==
    LET t == ScanTaken(m)
        last == m.si + t.k - 1
        d == OffX(last)
    IN  IF t.k = 0 THEN Declines(m)
        ELSE [m |-> [m EXCEPT !.eax = d * d, !.ecx = d, !.edx = 0,
                              !.sq = d * d, !.below = d, !.dy = OffY(last),
                              !.si = @ + t.k, !.di = @ + t.k,
                              !.fl = <<m.di + t.k, NatCount>>,
                              !.pc = IF t.out THEN "scanned" ELSE "head"],
              steps |-> 3 * t.k]

(* Routines with a fault a check is there for: dead words not reproduced,  *)
(* the declined iteration's offset left behind, an iteration of the update *)
(* path skipped.                                                           *)
FaultyScan(m) ==
    LET t == ScanTaken(m)
        ok == ScanLoop(m)
    IN  CASE setting.routine = "sloppy" -> [ok EXCEPT !.m.below = m.below]
          [] setting.routine = "greedy" /\ t.k > 0 /\ ~t.out ->
                [ok EXCEPT !.m.dy = OffY(m.si + t.k)]
          [] setting.routine = "eager" /\ t.k = 0 ->
                [m |-> GuestNext(GuestMeasure(GuestHead(m))), steps |-> 3]
          [] OTHER -> ok

ByteAt3e(m) ==
    [m |-> [m EXCEPT !.frame = <<m.si, m.di>>, !.eax = NatPoint(m.bx)[1], !.pc = "api"],
     steps |-> 2]

RunRoutine(s, m) ==
    IF s = "byte_at_3e" THEN ByteAt3e(m)
    ELSE IF setting.routine = "right" THEN ScanLoop(m) ELSE FaultyScan(m)

---------------------------------------------------------------------------
(* The table of sites.                                                     *)

SiteAddr(tab, s) == <<tab[s].sel, SitePlace[s]>>

(* nat_slot mixes the address into an index: any function of it.           *)
NatProbe(map, addr, j) == map[(setting.slotOf[addr] + j) % NatSlots]

(* How far from its slot an address' walk meets an empty entry.            *)
NatFree(map, addr) == Min({j \in 0..NatSlots - 1 : NatProbe(map, addr, j) = NoSite})

NatFind(tab, map, addr) ==
    LET hits == {j \in 0..NatFree(map, addr) - 1 :
                    SiteAddr(tab, NatProbe(map, addr, j)) = addr}
    IN  IF hits = {} THEN NoSite ELSE NatProbe(map, addr, Min(hits))

NatPut(map, addr, s) ==
    [map EXCEPT ![(setting.slotOf[addr] + NatFree(map, addr)) % NatSlots] = s]

(* A site is patched if its segment is loaded and holds the code the       *)
(* routine was written for, and nothing else has the address.  (No site of *)
(* the table begins with a prefix.)                                        *)
InstallOne(st, s, module) ==
    LET addr == <<module[s].sel, SitePlace[s]>>
    IN  IF ~module[s].holds \/ NatFind(st.tab, st.map, addr) # NoSite THEN st
        ELSE [tab |-> [st.tab EXCEPT ![s].sel = module[s].sel, ![s].installed = TRUE],
              map |-> NatPut(st.map, addr, s),
              d6  |-> st.d6 \union {addr}]

NativeInstall(module) ==
    LET fresh == [tab |-> [s \in SiteNames |-> [sites[s] EXCEPT !.installed = FALSE]],
                  map |-> [i \in 0..NatSlots - 1 |-> NoSite],
                  d6  |-> {}]
    IN  InstallOne(InstallOne(fresh, "scan_loop", module), "byte_at_3e", module)

---------------------------------------------------------------------------
(* Starting, loading the program, calling its scan.                        *)

BlankGuest ==
    [pc |-> "api", eax |-> 0, ecx |-> 0, edx |-> 0, bx |-> 0, si |-> 0, di |-> 0,
     fl |-> <<>>, dy |-> 0, sq |-> 0, below |-> 0, frame |-> <<>>,
     best |-> FarBest, near |-> 0, d6 |-> {}]

NatModules ==
    {[scan_loop  |-> [sel |-> a, holds |-> p], byte_at_3e |-> [sel |-> b, holds |-> q]] :
        a \in NatSels, b \in NatSels, p \in BOOLEAN, q \in BOOLEAN}

NativesInit ==
    /\ natcpu = BlankGuest /\ natplain = BlankGuest
    /\ natstate = "running"
    /\ natmap = [i \in 0..NatSlots - 1 |-> NoSite]
    /\ sites = [s \in SiteNames |-> [sel |-> 0, installed |-> FALSE, hits |-> 0]]
    /\ replay = NotReplaying
    /\ \E r \in Routines, e \in Everys, f \in NatSlotFns :
          setting = [scene |-> NoSite, routine |-> r, every |-> e, slotOf |-> f,
                     module |-> NoSite, loads |-> 0, scans |-> 0]

LoadProgram ==
    /\ natstate = "running" /\ natcpu.pc = "api" /\ ~replay.on
    /\ setting.loads < MostPatched
    /\ \E module \in NatModules :
          /\ setting' = [setting EXCEPT !.module = module, !.loads = @ + 1, !.scans = 0]
          /\ LET st == NativeInstall(module)
             IN  /\ sites' = st.tab /\ natmap' = st.map
                 /\ natcpu' = [BlankGuest EXCEPT !.d6 = st.d6]
          /\ natplain' = BlankGuest
    /\ UNCHANGED <<natstate, replay>>

CallScan ==
    /\ natstate = "running" /\ natcpu.pc = "api" /\ ~replay.on
    /\ setting.loads > 0 /\ setting.scans < MostScans
    /\ \E scene \in Scenes :
          setting' = [setting EXCEPT !.scene = scene, !.scans = @ + 1]
    /\ natcpu' = [natcpu EXCEPT !.pc = "head", !.si = 0, !.di = 0, !.best = FarBest, !.near = 0]
    /\ natplain' = [natplain EXCEPT !.pc = "head", !.si = 0, !.di = 0,
                                    !.best = FarBest, !.near = 0]
    /\ UNCHANGED <<natstate, natmap, sites, replay>>

---------------------------------------------------------------------------
(* Dispatch.                                                               *)

(* Where the guest is about to fetch.  Only the two sites' places can hold *)
(* the opcode.                                                             *)
FetchAddr(m) ==
    <<IF m.pc = "accessor" THEN setting.module["byte_at_3e"].sel
      ELSE setting.module["scan_loop"].sel, m.pc>>

Fetches(m) == FetchAddr(m) \in m.d6

HookedSite(m) == NatFind(sites, natmap, FetchAddr(m))

Account(s) == sites' = [sites EXCEPT ![s].hits = IF setting.every = 0 THEN 0
                                                 ELSE (@ + 1) % setting.every]

ToBeChecked(s) == setting.every # 0 /\ (sites[s].hits + 1) % setting.every = 0

Running == natstate = "running" /\ natcpu.pc # "api" /\ ~replay.on

(* Guest code: no site here, or a routine that declined and left the byte  *)
(* it was patched over to be decoded.                                      *)
StepGuest ==
    /\ Running
    /\ UNCHANGED setting
    /\ Fetches(natcpu) => LET s == HookedSite(natcpu)
                          IN  s # NoSite /\ (s # NoSite => RunRoutine(s, natcpu).steps = 0)
    /\ natcpu' = Interpret(natcpu)
    /\ natplain' = Interpret(natplain)
    /\ UNCHANGED <<natstate, natmap, sites, replay>>

StepNative ==
    /\ Running /\ Fetches(natcpu)
    /\ UNCHANGED setting
    /\ LET s == HookedSite(natcpu)
           ran == RunRoutine(s, natcpu)
       IN  /\ s # NoSite
           /\ ~ToBeChecked(s) /\ ran.steps > 0
           /\ natcpu' = ran.m
           /\ natplain' = InterpretFor(natplain, ran.steps)
           /\ Account(s)
    /\ UNCHANGED <<natstate, natmap, replay>>

(* The opcode with no routine behind it.                                   *)
StepNowhere ==
    /\ Running /\ Fetches(natcpu)
    /\ UNCHANGED setting
    /\ HookedSite(natcpu) = NoSite
    /\ natstate' = "badop"
    /\ UNCHANGED <<natcpu, natplain, natmap, sites, replay>>

---------------------------------------------------------------------------
(* Verification.                                                           *)

(* The machine a routine is answerable for, registers first.               *)
CpuSame(a, b) ==
    /\ a.pc = b.pc /\ a.fl = b.fl /\ a.bx = b.bx
    /\ <<a.eax, a.ecx, a.edx, a.si, a.di>> = <<b.eax, b.ecx, b.edx, b.si, b.di>>

(* The words under the stack pointer are not compared.                     *)
SnapSame(a, b) == <<a.dy, a.sq, a.best, a.near>> = <<b.dy, b.sq, b.best, b.near>> /\ a.d6 = b.d6

(* The routine runs; its machine, with the site as the guest sees it, is   *)
(* what the replay is to arrive at.  The machine goes back to the site,    *)
(* unpatched.                                                              *)
CheckBegins ==
    /\ Running /\ Fetches(natcpu)
    /\ UNCHANGED setting
    /\ LET s == HookedSite(natcpu)
           ran == RunRoutine(s, natcpu)
           bare == natcpu.d6 \ {FetchAddr(natcpu)}
       IN  /\ s # NoSite
           /\ ToBeChecked(s) /\ ran.steps > 0
           /\ replay' = [on |-> TRUE, site |-> s, n |-> ran.steps, steps |-> 0,
                         after |-> [ran.m EXCEPT !.d6 = bare]]
           /\ natcpu' = [natcpu EXCEPT !.d6 = bare]
    /\ UNCHANGED <<natplain, natstate, natmap, sites>>

(* One step of the replay.  Another site it meets runs natively, and is    *)
(* not itself checked.                                                     *)
ReplayStep(m) ==
    IF ~Fetches(m) THEN Interpret(m)
    ELSE LET ran == RunRoutine(HookedSite(m), m)
         IN  IF ran.steps = 0 THEN Interpret(m) ELSE ran.m

Patched(m) == [m EXCEPT !.d6 = @ \union {SiteAddr(sites, replay.site)}]

Replay ==
    /\ natstate = "running" /\ replay.on
    /\ UNCHANGED setting
    /\ LET m == ReplayStep(natcpu)
           nested == IF Fetches(natcpu) THEN HookedSite(natcpu) ELSE NoSite
       IN  IF CpuSame(m, replay.after) /\ SnapSame(m, replay.after)
           THEN /\ natcpu' = Patched(m)
                /\ natplain' = InterpretFor(natplain, replay.n)
                /\ replay' = NotReplaying
                /\ Account(replay.site)
                /\ UNCHANGED natstate
           ELSE IF m.pc # "api" /\ replay.steps + 1 < Budget
           THEN /\ natcpu' = m
                /\ replay' = [replay EXCEPT !.steps = @ + 1]
                /\ IF nested = NoSite THEN UNCHANGED sites ELSE Account(nested)
                /\ UNCHANGED <<natplain, natstate>>
           ELSE /\ natcpu' = Patched(replay.after)
                /\ natstate' = "fault"
                /\ replay' = NotReplaying
                /\ UNCHANGED <<natplain, sites>>
    /\ UNCHANGED natmap

NativesNext == LoadProgram \/ CallScan \/ StepGuest \/ StepNative \/ StepNowhere
               \/ CheckBegins \/ Replay

---------------------------------------------------------------------------
(* Properties *)

Alike == CpuSame(natcpu, natplain)
         /\ SnapSame([natcpu EXCEPT !.d6 = {}], [natplain EXCEPT !.d6 = {}])

(* Native code cannot be told from the code it stands for: whenever no     *)
(* check is on, a machine with a right routine, or with a wrong one that   *)
(* is checked at every hit, is the machine that only ever interpreted; no  *)
(* check ever stops a right one, whatever is different in words nothing    *)
(* can read; and the opcode is met only where a routine is                 *)
(* (native.c: native_install, native_hook, native_checked).                *)
NativeUnseen ==
    /\ natstate = "running" /\ ~replay.on
       /\ (setting.routine \in {"right", "sloppy"} \/ setting.every = 1) => Alike
    /\ setting.routine \in {"right", "sloppy"} => natstate # "fault"
    /\ natstate # "badop"

-----------------------------------------------------------------------------
(***************************************************************************)
(* What the native routines of native.c compute (rand_long, rand_mod,      *)
(* tech_check, habitability), in guest words made small, beside what the   *)
(* comments there and docs/natives.md say each of them is: a multiplica-   *)
(* tive congruential generator, a lookup of which requirement is short,    *)
(* a planet's value.  The square root of habitability's last step is the   *)
(* x87's, and external here.                                               *)
(***************************************************************************)

CONSTANTS
    LONG,         \* values of a 32-bit word
    SHORT,        \* values of a 16-bit word; SHORT * SHORT = LONG
    Gen1, Gen2,   \* [m, a, q]: the generators, modulus and multiplier, q = m \div a
    RollFor,      \* arguments of rand_mod
    Fields,       \* the fields of tech_check, from 0 (six)
    Levels,       \* what a field or a requirement may be
    PERCENT,      \* 100
    CAP,          \* the most an axis out of range counts (15)
    Axes          \* [value, centre, low, high]: an axis of habitability

ASSUME NativeMathAssumption ==
    /\ SHORT * SHORT = LONG
    /\ \A g \in {Gen1, Gen2} :
          /\ g.m % g.a < g.q /\ g.q = g.m \div g.a
          /\ 2 * g.m <= LONG
    /\ Gen2.m <= Gen1.m

VARIABLES
    asked,        \* the call about to be made
    seeds,        \* the generator's two seeds in the guest's data
    answer        \* what the last call answered

mathvars == <<asked, seeds, answer>>

AsSigned(x, w) == IF 2 * x >= w THEN x - w ELSE x
QuotientC(a, b) ==                       \* C's, towards zero
    LET q == (IF a < 0 THEN -a ELSE a) \div (IF b < 0 THEN -b ELSE b)
    IN  IF (a < 0) # (b < 0) THEN -q ELSE q

---------------------------------------------------------------------------
(* The generator: Schrage's method, the low halves of both products and    *)
(* one fix-up.                                                             *)

\* A mistake it could have made: no fix-up.
LecuyerUnfixed(s, g) ==
    ((QuotientC(AsSigned(s, LONG), -g.q) * g.m) + (s * g.a)) % LONG

Lecuyer(s, g) ==
    LET r == ((QuotientC(AsSigned(s, LONG), -g.q) * g.m) + (s * g.a)) % LONG
    IN  IF AsSigned(r, LONG) < 0 THEN (r + g.m) % LONG ELSE r

NewSeeds(s) == <<Lecuyer(s[1], Gen1), Lecuyer(s[2], Gen2)>>

(* The two halves are subtracted with a borrow and come back in DX:AX.     *)
RandLong(s) ==
    LET n == NewSeeds(s)
        borrow == IF n[1] % SHORT < n[2] % SHORT THEN 1 ELSE 0
    IN  [ax |-> ((n[1] % SHORT) - (n[2] % SHORT)) % SHORT,
         dx |-> ((n[1] \div SHORT) - (n[2] \div SHORT) - borrow) % SHORT]

RandMod(s, n) ==
    LET new == NewSeeds(s)
        diff == (new[1] - new[2]) % LONG
        r == IF AsSigned(diff, LONG) < 1 THEN (diff + Gen1.m - 1) % LONG ELSE diff
    IN  IF n <= 0 THEN 0 ELSE r % n

---------------------------------------------------------------------------
(* tech_check                                                              *)

(* The fields are walked in order, and the one the nibble names is told    *)
(* apart: `flag' if its requirement is short by one, else `idx'.           *)
TechWalk(req, have, named) ==
    LET walk[i \in 0..Max(Fields) + 1] ==
            IF i = 0 THEN [count |-> 0, flag |-> FALSE, idx |-> 0]
            ELSE LET w == walk[i - 1]
                     f == i - 1
                     gap == req[f] - have[f] + 1
                 IN  IF req[f] >= have[f] THEN w
                     ELSE [count |-> w.count + 1,
                           flag  |-> w.flag \/ (named = f /\ gap = 0),
                           idx   |-> IF named = f /\ gap # 0 THEN f + 1 ELSE w.idx]
    IN  walk[Max(Fields) + 1]

TechCheck(req, have, named) ==
    LET w == TechWalk(req, have, named)
    IN  IF w.count = 0 THEN 1
        ELSE IF w.count = 1 /\ w.flag THEN 2
        ELSE IF w.count = 1 /\ w.idx # 0 THEN have[w.idx - 1] - req[w.idx - 1] + 1
        ELSE 99

---------------------------------------------------------------------------
(* habitability, axis by axis.                                             *)

Worst == PERCENT * PERCENT
NoAxis == [sum |-> 0, red |-> 0, factor |-> Worst, declined |-> FALSE]

OutOfRange(acc, a) ==
    LET far == IF a.low > a.value THEN a.low - a.value ELSE a.value - a.high
    IN  [acc EXCEPT !.red = @ + (IF far > CAP THEN CAP ELSE far)]

(* The half-width is that of the side of the centre the value is on.       *)
InRange(acc, a) ==
    LET below == a.centre > a.value
        off == IF below THEN a.centre - a.value ELSE a.value - a.centre
        width == IF below THEN a.centre - a.low ELSE a.high - a.centre
        pct == QuotientC(off * PERCENT, width)
        excess == (2 * off) - width
        wide == 2 * width
    IN  IF width = 0 THEN [acc EXCEPT !.declined = TRUE]
        ELSE [acc EXCEPT
                !.sum = @ + ((PERCENT - pct) * (PERCENT - pct)),
                !.factor = IF excess > 0 THEN QuotientC(@ * (wide - excess), wide) ELSE @]

HabAxis(acc, a) ==
    CASE acc.declined -> acc
      [] ~acc.declined /\ a.high < 0 -> [acc EXCEPT !.sum = @ + Worst]
      [] ~acc.declined /\ a.high >= 0 /\ (a.low > a.value \/ a.high < a.value) -> OutOfRange(acc, a)
      [] OTHER -> InRange(acc, a)

(* The tail: the root of a third of the sum, rounded, of the factor.       *)
RootOfThird(sum) == Max({r \in 0..PERCENT : r = 0 \/ 3 * ((10 * r) - 9) * ((10 * r) - 9) <= 100 * sum})

Habitability(axes) ==
    LET all == HabAxis(HabAxis(HabAxis(NoAxis, axes[1]), axes[2]), axes[3])
    IN  CASE all.declined -> [declined |-> TRUE, value |-> 0]
          [] ~all.declined /\ all.red # 0 -> [declined |-> FALSE, value |-> -all.red]
          [] OTHER -> [declined |-> FALSE,
                       value |-> QuotientC(RootOfThird(all.sum) * all.factor, Worst)]

---------------------------------------------------------------------------
Nothing == [what |-> "none"]

Calls ==
    [what : {"rand_long"}] \union [what : {"rand_mod"}, n : RollFor]
    \union [what : {"tech_check"}, req : [Fields -> Levels], have : [Fields -> Levels],
            named : 0..Max(Fields) + 1]
    \union [what : {"habitability"}, axes : [1..3 -> Axes]]

MathInit ==
    /\ asked \in Calls
    /\ IF asked.what \in {"rand_long", "rand_mod"}
       THEN seeds \in (1..Gen1.m - 1) \X (1..Gen2.m - 1)
       ELSE seeds = <<1, 1>>
    /\ answer = Nothing

CallRand ==
    /\ answer.what = "none"
    /\ asked.what \in {"rand_long", "rand_mod"}
    /\ seeds' = NewSeeds(seeds)
    /\ answer' = IF asked.what = "rand_long"
                 THEN [what |-> "rand_long", v |-> RandLong(seeds), from |-> seeds]
                 ELSE [what |-> "rand_mod", v |-> RandMod(seeds, asked.n), from |-> seeds]
    /\ UNCHANGED asked

CallTechCheck ==
    /\ answer.what = "none"
    /\ asked.what = "tech_check"
    /\ answer' = [what |-> "tech_check", v |-> TechCheck(asked.req, asked.have, asked.named)]
    /\ UNCHANGED <<asked, seeds>>

CallHabitability ==
    /\ answer.what = "none"
    /\ asked.what = "habitability"
    /\ answer' = [what |-> "habitability", v |-> Habitability(asked.axes)]
    /\ UNCHANGED <<asked, seeds>>

MathNext == CallRand \/ CallTechCheck \/ CallHabitability

---------------------------------------------------------------------------
(* Properties *)

(* The generators are the congruential ones, never stuck at 0, and their   *)
(* difference comes out whole, or in the range asked for.                  *)
RandExact ==
    answer.what \in {"rand_long", "rand_mod"} =>
        LET z == seeds[1] - seeds[2]
            pos == IF z < 1 THEN z + Gen1.m - 1 ELSE z
        IN  /\ seeds[1] = (Gen1.a * answer.from[1]) % Gen1.m
            /\ seeds[2] = (Gen2.a * answer.from[2]) % Gen2.m
            /\ 0 \notin {seeds[1], seeds[2]}
            /\ answer.what = "rand_long" => (answer.v.dx * SHORT) + answer.v.ax = z % LONG
            /\ answer.what = "rand_mod" =>
                  answer.v = IF asked.n > 0 THEN pos % asked.n ELSE 0

(* One answer for every requirement met, one for more than the named field *)
(* being short or another, and for the named one alone how short it is.    *)
TechExact ==
    answer.what = "tech_check" =>
        LET short == {i \in Fields : asked.req[i] < asked.have[i]}
        IN  answer.v = IF short = {} THEN 1
                       ELSE IF short = {asked.named}
                       THEN asked.have[asked.named] - asked.req[asked.named] + 1
                       ELSE 99

Immune(a) == a.high < 0
Suits(a) == Immune(a) \/ (a.low <= a.value /\ a.value <= a.high)
Distance(a) == IF a.value < a.centre THEN a.centre - a.value ELSE a.value - a.centre

(* A planet's value is a percentage, or the penalties of the axes that do  *)
(* not suit; a value nearer its centre is never worse; and the routine     *)
(* leaves to the guest only a call that would divide by a width of zero.   *)
HabBounded ==
    answer.what = "habitability" =>
        LET axes == asked.axes
            v == answer.v.value
        IN  /\ answer.v.declined <=> \E i \in 1..3 : Suits(axes[i]) /\ ~Immune(axes[i])
                                         /\ axes[i].value = axes[i].centre /\ axes[i].high = axes[i].centre
            /\ ~answer.v.declined =>
                  /\ IF \A i \in 1..3 : Suits(axes[i]) THEN v \in 0..PERCENT
                                                       ELSE v \in -(3 * CAP)..-1
                  /\ \A i \in 1..3, a \in Axes :
                        /\ <<a.low, a.centre, a.high>> = <<axes[i].low, axes[i].centre, axes[i].high>>
                        /\ Suits(a) /\ Suits(axes[i])
                        /\ (a.value < a.centre) = (axes[i].value < axes[i].centre)
                        /\ Distance(a) <= Distance(axes[i])
                        => LET h == Habitability([axes EXCEPT ![i] = a])
                           IN  h.declined \/ h.value >= v

(* What the routines compute is what the comments and docs/natives.md say  *)
(* (native.c: lecuyer, nat_rand_long, nat_rand_mod, nat_tech_check,        *)
(* nat_habitability).                                                      *)
RoutinesExact == RandExact /\ TechExact /\ HabBounded

=============================================================================
