------------------------------- MODULE Loader -------------------------------
(***************************************************************************)
(* Loading a module's segments (ne.c, ne_load): a selector for each, their   *)
(* bytes, relocations, and the prologs of what is exported.  The module is   *)
(* loaded afresh for every call of the library, from a copy of its table.   *)
(***************************************************************************)
EXTENDS Integers, Sequences, SequencesExt, FiniteSets, Functions

CONSTANTS BV,              \* values of a byte: a word is two, and a segment BV * BV bytes
          Programs,        \* the modules: what the linker wrote, and what it meant
          Selectors,       \* those there are
          Imports,         \* the address each import of another module has
          MOVEABLE, ABSOLUTE,  \* in place of a segment: one found by ordinal, and a number
          PushDs, PopAx, MovAxDs, Ds, NOP, MovAxImm,   \* bytes of a prolog
          MostReloads        \* bound: times the module is loaded

ASSUME LoaderConstants == BV \in Nat /\ BV > 1 /\ Selectors \subseteq 1 .. BV * BV - 1

SegSize == BV * BV
END == SegSize - 1         \* the end of a chain

VARIABLES program,         \* the module, parsed
          sels, sizes,     \* of its segments, in the copy of its table
          mem,             \* the bytes of those loaded
          stage, next,     \* what is being done, and to which segment
          errors,
          reloads

loaderVars == <<program, sels, sizes, mem, stage, next, errors, reloads>>

Seg(i) == program.segs[i]
Segs == DOMAIN program.segs
Nowhere == [sel |-> 0, off |-> 0]

\* Words in the bytes of a segment, whose offsets wrap.
Rd8(b, off) == b[off % SegSize]
Rd16(b, off) == Rd8(b, off) + BV * Rd8(b, off + 1)
Wr8(b, off, v) == [b EXCEPT ![off % SegSize] = v % BV]
Wr16(b, off, v) == Wr8(Wr8(b, off, v), off + 1, (v % SegSize) \div BV)

\* The bundles of the entry table as one sequence, by ordinal; a gap has entries too.
Entries == FlattenSeq([k \in DOMAIN program.entries |->
    LET e == program.entries[k]
    IN  IF e.type = 0 THEN [i \in 1 .. e.count |-> [seg |-> 0, off |-> 0, flags |-> {}]] ELSE e.list])
EntryPoint(ordinal) ==
    LET e == Entries[ordinal]
    IN  IF ordinal \notin DOMAIN Entries THEN Nowhere
        ELSE IF e.seg = ABSOLUTE THEN [sel |-> END, off |-> e.off]
        ELSE IF e.seg \in Segs THEN [sel |-> sels[e.seg], off |-> e.off] ELSE Nowhere

\* Where a relocation points, and whether that was wrong.
Target(r) ==
    CASE r.kind = "internal" /\ r.t1 = MOVEABLE -> [addr |-> EntryPoint(r.t2), bad |-> 0]
      [] r.kind = "internal" /\ r.t1 # MOVEABLE ->
            IF r.t1 \in Segs THEN [addr |-> [sel |-> sels[r.t1], off |-> r.t2], bad |-> 0]
            ELSE [addr |-> Nowhere, bad |-> 1]
      [] r.kind = "ordinal" ->
            [addr |-> IF <<r.t1, r.t2>> \in DOMAIN Imports THEN Imports[<<r.t1, r.t2>>] ELSE Nowhere, bad |-> 0]
      [] r.kind = "name" -> [addr |-> Nowhere, bad |-> 1]

PatchAt(b, off, atype, addr) ==
    CASE atype = "lobyte"   -> Wr8(b, off, addr.off)
      [] atype = "offset"   -> Wr16(b, off, addr.off)
      [] atype = "selector" -> Wr16(b, off, addr.sel)
      [] atype = "far"      -> Wr16(Wr16(b, off, addr.off), off + 2, addr.sel)
AddedOn(b, off, atype, addr) ==
    CASE atype = "lobyte"   -> Wr8(b, off, Rd8(b, off) + addr.off)
      [] atype = "offset"   -> Wr16(b, off, Rd16(b, off) + addr.off)
      [] atype = "selector" -> IF Rd16(b, off) = 0 THEN Wr16(b, off, addr.sel) ELSE b
      [] atype = "far"      -> Wr16(Wr16(b, off, Rd16(b, off) + addr.off), off + 2, addr.sel)

\* A mistake it could have made: a site is patched and then asked for the next.
RECURSIVE PatchThenRead(_, _, _, _, _)
PatchThenRead(b, size, off, atype, addr) ==
    LET p == PatchAt(b, off, atype, addr)
        link == Rd16(p, off)
    IN  IF off = END THEN b
        ELSE IF link = off \/ link >= size THEN p
        ELSE PatchThenRead(p, size, link, atype, addr)

\* The sites of one relocation, each naming the next before it is patched.
RECURSIVE PatchChain(_, _, _, _, _)
PatchChain(b, size, off, atype, addr) ==
    LET link == Rd16(b, off)
        p == PatchAt(b, off, atype, addr)
    IN  IF off = END THEN b
        ELSE IF link = off \/ link >= size THEN p
        ELSE PatchChain(p, size, link, atype, addr)

Relocated(b, size, r) ==
    LET t == Target(r).addr
    IN  IF r.kind = "osfixup" THEN b
        ELSE IF r.additive THEN AddedOn(b, r.off, r.atype, t)
        ELSE PatchChain(b, size, r.off, r.atype, t)

\* What is exported from a code segment, and begins by saving DS where it could be
\* given its own.
FixProlog(b, e) ==
    LET w == Rd16(b, e.off)
        moved == IF w = PushDs + BV * PopAx THEN Wr16(b, e.off, Ds + BV * MovAxDs) ELSE b
    IN  IF Rd8(b, e.off + 2) # NOP \/ Rd16(moved, e.off) # Ds + BV * MovAxDs THEN b
        ELSE IF "shared" \in e.flags
        THEN Wr16(Wr8(moved, e.off, MovAxImm), e.off + 1, sels[program.autodata])
        ELSE IF program.multiple /\ "exported" \in e.flags THEN Wr16(moved, e.off, NOP + BV * NOP)
        ELSE moved
Prologs(i) ==
    IF ~Seg(i).code \/ program.autodata = 0 THEN mem[i]
    ELSE FoldLeft(LAMBDA b, e : IF e.seg = i THEN FixProlog(b, e) ELSE b, mem[i], Entries)

\* Runs of bytes, of which one that would not fit is left out.
Unrolled(runs, size) ==
    FoldLeft(LAMBDA d, run : FoldLeft(LAMBDA c, k : IF Len(c) + Len(run.bytes) > size THEN c ELSE c \o run.bytes,
                                      d, [k \in 1 .. run.rep |-> k]), <<>>, runs)
SegBody(i) ==
    LET bytes == IF Seg(i).iterated THEN Unrolled(Seg(i).runs, sizes[i]) ELSE Seg(i).bytes
    IN  [off \in 0 .. END |-> IF off < Len(bytes) /\ off < sizes[i] THEN bytes[off + 1] ELSE 0]

\* A segment's size; the data segment has the stack and the heap above its data.
Size(i) ==
    LET own == IF Len(Seg(i).bytes) > Seg(i).minalloc THEN Len(Seg(i).bytes) ELSE Seg(i).minalloc
        all == own + IF i = program.autodata THEN program.extra ELSE 0
    IN  IF all > SegSize THEN SegSize ELSE all

---------------------------------------------------------------------------

To(s) == IF next = Len(program.segs) THEN stage' = s /\ next' = 1 ELSE stage' = stage /\ next' = next + 1

GiveSelector ==
    /\ stage = "selectors"
    /\ LET free == Selectors \ {sels[i] : i \in Segs}
       IN  IF free = {} THEN stage' = "failed" /\ UNCHANGED <<sels, sizes, next>>
           ELSE /\ sels' = [sels EXCEPT ![next] = CHOOSE s \in free : \A t \in free : s <= t]
                /\ sizes' = [sizes EXCEPT ![next] = Size(next)]
                /\ To("bodies")
    /\ UNCHANGED <<program, mem, errors, reloads>>

ReadBody ==
    /\ stage = "bodies"
    /\ mem' = [mem EXCEPT ![next] = SegBody(next)]
    /\ To("relocations")
    /\ UNCHANGED <<program, sels, sizes, errors, reloads>>

ApplyRelocations ==
    /\ stage = "relocations"
    /\ mem' = [mem EXCEPT ![next] = FoldLeft(LAMBDA b, r : Relocated(b, sizes[next], r), @, Seg(next).relocs)]
    /\ errors' = errors + Len(SelectSeq(Seg(next).relocs, LAMBDA r : r.kind # "osfixup" /\ Target(r).bad = 1))
    /\ To("prologs")
    /\ UNCHANGED <<program, sels, sizes, reloads>>

FixupPrologs ==
    /\ stage = "prologs"
    /\ mem' = [mem EXCEPT ![next] = Prologs(next)]
    /\ To(IF errors = 0 THEN "loaded" ELSE "failed")
    /\ UNCHANGED <<program, sels, sizes, errors, reloads>>

\* The next call of the library: a new address space, and the table copied again.
ReloadModule ==
    /\ stage = "loaded" /\ reloads < MostReloads
    /\ sels' = [i \in Segs |-> 0] /\ sizes' = [i \in Segs |-> 0]
    /\ mem' = [i \in Segs |-> [off \in 0 .. END |-> 0]]
    /\ stage' = "selectors" /\ next' = 1 /\ errors' = 0 /\ reloads' = reloads + 1
    /\ UNCHANGED program

LoaderInit ==
    /\ program \in Programs
    /\ sels = [i \in Segs |-> 0] /\ sizes = [i \in Segs |-> 0]
    /\ mem = [i \in Segs |-> [off \in 0 .. END |-> 0]]
    /\ stage = "selectors" /\ next = 1 /\ errors = 0 /\ reloads = 1

LoaderNext == GiveSelector \/ ReadBody \/ ApplyRelocations \/ FixupPrologs \/ ReloadModule

---------------------------------------------------------------------------

\* The address that what is written at a site stands for.
Meant(s) == CASE s.to = "segment" -> [sel |-> sels[s.of], off |-> s.off]
              [] s.to = "import"  -> Imports[s.of]
              [] s.to = "number"  -> [sel |-> END, off |-> s.off]
Holds(b, s) ==
    /\ s.atype = "lobyte" => Rd8(b, s.at) = (s.addend + Meant(s).off) % BV
    /\ s.atype \in {"offset", "far"} => Rd16(b, s.at) = (s.addend + Meant(s).off) % SegSize
    /\ s.atype = "selector" => Rd16(b, s.at) = Meant(s).sel
    /\ s.atype = "far" => Rd16(b, s.at + 2) = Meant(s).sel
Sites(i) == {s \in program.meant : s.seg = i}
\* The bytes that sites and prologs are in.
Covered(i) ==
    UNION {s.at .. s.at + (IF s.atype = "far" THEN 3 ELSE 1) : s \in Sites(i)}
        \cup UNION {e.off .. e.off + 2 : e \in {x \in Range(Entries) : x.seg = i}}

\* A module that is loaded has, at every site its linker meant, the address it
\* meant, by its segments' selectors now; every other byte is its file's; each
\* segment has its own selector and the size it says, however often it was loaded.
LoadedAsLinked ==
    stage = "loaded" =>
        \A i \in Segs :
           /\ \A s \in Sites(i) : Holds(mem[i], s)
           /\ \A off \in (0 .. END) \ Covered(i) : mem[i][off] = SegBody(i)[off]
           /\ \A j \in Segs : sels[i] = sels[j] => i = j
           /\ sizes[i] = Size(i)

\* "Windows rewrites the prolog of exported functions so they see the right DS":
\* one that begins PUSH DS, POP AX, NOP or MOV AX, DS, NOP and wants the shared
\* data has the data segment's selector put in AX.
PrologSeesDgroup ==
    stage = "loaded" /\ program.autodata # 0 =>
        \A e \in Range(Entries) :
           /\ e.seg \in Segs /\ Seg(e.seg).code /\ "shared" \in e.flags
           /\ Rd8(SegBody(e.seg), e.off + 2) = NOP
           /\ \/ Rd8(SegBody(e.seg), e.off) = PushDs /\ Rd8(SegBody(e.seg), e.off + 1) = PopAx
              \/ Rd8(SegBody(e.seg), e.off) = MovAxDs /\ Rd8(SegBody(e.seg), e.off + 1) = Ds
           => /\ Rd8(mem[e.seg], e.off) = MovAxImm
              /\ Rd16(mem[e.seg], e.off + 1) = sels[program.autodata]
=============================================================================
