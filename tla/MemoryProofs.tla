---------------------------- MODULE MemoryProofs ----------------------------
(***************************************************************************)
(* The memory the program is given, for every size of arena, slot,         *)
(* segment, request and table.                                             *)
(*                                                                         *)
(* The global heap: the arena stays tiled by blocks with one owner each,   *)
(* if the count of a block fits SelDesc.count: it does in the library,     *)
(* whose arena has at most 256 slots (GUEST_SLOTS) of which index 0 is     *)
(* never part of a block.  The local heap: its chain stays whole and its   *)
(* blocks keep their words, if no request wraps in sixteen bits with its   *)
(* header.  The handles: the lists linked through hnext, as the sets they  *)
(* hold, stay what is used and what is free.                               *)
(***************************************************************************)
EXTENDS GlobalHeap, LocalHeap, HandleMap, FiniteSetTheorems, NaturalsInduction, WellFoundedInduction, TLAPS

CountFits == SEL_LIMIT <= COUNT_MOD

(***************************************************************************)
(* The request's slots.                                                    *)
(***************************************************************************)

(* SlotCount, sel_alloc's rounding, gives every request at least one slot. *)
LEMMA SlotCountPositive ==
  ASSUME NEW size \in Nat
  PROVE  SlotCount(size) \in Nat \ {0}
<1> DEFINE x == (size + SLOT - 1) % SIZE_MOD
<1>1. x \in Nat
  BY SlotAssumption, SizeModAssumption
<1>2. x \div SLOT \in Nat
  BY <1>1, SlotAssumption
<1> QED
  BY <1>2 DEF SlotCount

(* Under CountFits, SelDesc.count holds the length of any run that fits.   *)
LEMMA CountIsExact ==
  ASSUME CountFits,
         NEW size \in Nat, NEW start \in Nat \ {0},
         start + SlotCount(size) <= SEL_LIMIT
  PROVE  SlotCount(size) % COUNT_MOD = SlotCount(size)
<1>1. SlotCount(size) \in Nat \ {0}
  BY SlotCountPositive
<1>2. SlotCount(size) < COUNT_MOD
  BY <1>1, LimitAssumption, CountModAssumption DEF CountFits
<1> QED
  BY <1>1, <1>2, CountModAssumption

-----------------------------------------------------------------------------
(***************************************************************************)
(* What sel_alloc does to a tiled table.                                   *)
(***************************************************************************)

(* The descriptors sel_alloc writes have the type of descriptors.          *)
LEMMA TakenType ==
  ASSUME NEW tab \in TabType, NEW size \in Nat, NEW start \in Nat,
         NEW kind \in Kinds
  PROVE  Taken(tab, start, size, kind) \in TabType
<1> DEFINE c == SlotCount(size) % COUNT_MOD
           l(i) == (size - (i - start) * SLOT - 1) % SIZE_MOD
<1>1. c \in 0 .. COUNT_MOD - 1
  BY SlotCountPositive, CountModAssumption
<1>2. \A i \in Index : l(i) \in 0 .. SIZE_MOD - 1
  <2> TAKE i \in Index
  <2>1. (i - start) * SLOT \in Int
    BY SlotAssumption, LimitAssumption DEF Index
  <2> QED
    BY <2>1, SizeModAssumption
<1> HIDE DEF c, l
<1>3. \A i \in Index : [kind |-> kind, limit |-> l(i), count |-> c,
                        head |-> i = start] \in SelDesc
  BY <1>1, <1>2, Zenon DEF SelDesc, Kinds
<1>4. \A i \in Index : tab[i] \in SelDesc
  BY DEF TabType
<1>5. [i \in Index |->
         IF i \in Run(start, SlotCount(size))
         THEN [kind |-> kind, limit |-> l(i), count |-> c, head |-> i = start]
         ELSE tab[i]] \in [Index -> SelDesc]
  BY <1>3, <1>4
<1> QED
  BY <1>5 DEF Taken, TabType, c, l

(* sel_alloc on a run of free slots adds one block and touches no other.   *)
LEMMA TakenTiles ==
  ASSUME CountFits,
         NEW tab \in TabType, Tiled(tab),
         NEW size \in Nat, NEW start \in Index \ {0}, NEW kind \in Kinds,
         start + SlotCount(size) <= SEL_LIMIT,
         \A i \in Run(start, SlotCount(size)) : tab[i].kind = "FREE"
  PROVE  /\ Tiled(Taken(tab, start, size, kind))
         /\ Heads(Taken(tab, start, size, kind)) = Heads(tab) \cup {start}
         /\ start \notin Heads(tab)
         /\ \A i \in Heads(tab) :
              Taken(tab, start, size, kind)[i].count = tab[i].count
<1> DEFINE n   == SlotCount(size)
           new == Taken(tab, start, size, kind)
<1>1. n \in Nat \ {0} /\ n % COUNT_MOD = n
  BY SlotCountPositive, CountIsExact DEF Index
<1>2. start \in Run(start, n) /\ Run(start, n) \subseteq Index
  BY <1>1, LimitAssumption DEF Run, Index
<1>3. \A i \in Run(start, n) : /\ new[i].kind = kind
                               /\ new[i].kind # "FREE"
                               /\ new[i].count = n
                               /\ new[i].head <=> i = start
  BY <1>1, <1>2 DEF Taken, TabType, Kinds
<1>4. \A i \in Index \ Run(start, n) : new[i] = tab[i]
  BY DEF Taken, TabType
<1> HIDE DEF n, new
<1>5. \A i \in Run(start, n) : tab[i].kind = "FREE"
  BY DEF n
<1>6. Heads(new) = Heads(tab) \cup {start}
  BY <1>2, <1>3, <1>4, <1>5 DEF Heads
<1>7. start \notin Heads(tab)
  BY <1>2, <1>5 DEF Heads
<1>8. \A i \in Heads(tab) :
        /\ i \notin Run(start, n)
        /\ new[i] = tab[i]
        /\ tab[i].count > 0
        /\ i + tab[i].count <= SEL_LIMIT
        /\ BlockAt(tab, i) \subseteq Index
        /\ \A k \in BlockAt(tab, i) : /\ tab[k].kind = tab[i].kind
                                      /\ tab[k].kind # "FREE"
                                      /\ tab[k].head <=> k = i
  <2> TAKE i \in Heads(tab)
  <2>1. i \in Index /\ tab[i].kind # "FREE" /\ tab[i].count \in Nat
    BY CountModAssumption DEF Heads, TabType, SelDesc
  <2>2. i \notin Run(start, n) /\ new[i] = tab[i]
    BY <2>1, <1>4, <1>5
  <2>3. tab[i].count > 0 /\ i + tab[i].count <= SEL_LIMIT
    BY DEF Tiled
  <2>4. BlockAt(tab, i) \subseteq Index
    BY <2>1, <2>3, LimitAssumption DEF BlockAt, Run, Index
  <2> QED
    BY <2>1, <2>2, <2>3, <2>4 DEF Tiled
<1>9. \A i \in Heads(tab) : \A k \in BlockAt(tab, i) : new[k] = tab[k]
  BY <1>4, <1>5, <1>8
<1>10. ASSUME NEW i \in Heads(new)
       PROVE  /\ new[i].count > 0
              /\ i + new[i].count <= SEL_LIMIT
              /\ \A k \in BlockAt(new, i) : /\ new[k].kind = new[i].kind
                                            /\ new[k].head <=> k = i
  <2>1. CASE i = start
    <3>1. BlockAt(new, i) = Run(start, n) /\ new[i].count = n
      BY <2>1, <1>2, <1>3 DEF BlockAt
    <3> QED
      BY <2>1, <3>1, <1>1, <1>2, <1>3 DEF n
  <2>2. CASE i \in Heads(tab)
    <3>1. BlockAt(new, i) = BlockAt(tab, i) /\ new[i] = tab[i]
      BY <2>2, <1>8 DEF BlockAt
    <3> QED
      BY <2>2, <3>1, <1>8, <1>9
  <2> QED
    BY <1>6, <2>1, <2>2
<1>11. ASSUME NEW j \in Index, new[j].kind # "FREE"
       PROVE  \E i \in Heads(new) : j \in BlockAt(new, i)
  <2>1. CASE j \in Run(start, n)
    <3>1. BlockAt(new, start) = Run(start, n)
      BY <1>2, <1>3 DEF BlockAt
    <3> QED
      BY <2>1, <3>1, <1>6
  <2>2. CASE j \notin Run(start, n)
    <3>1. tab[j].kind # "FREE"
      BY <2>2, <1>4, <1>11
    <3>2. PICK i \in Heads(tab) : j \in BlockAt(tab, i)
      BY <3>1 DEF Tiled
    <3>3. BlockAt(new, i) = BlockAt(tab, i)
      BY <1>8 DEF BlockAt
    <3> QED
      BY <3>2, <3>3, <1>6
  <2> QED
    BY <2>1, <2>2
<1> QED
  BY <1>6, <1>7, <1>8, <1>10, <1>11 DEF Tiled, new

-----------------------------------------------------------------------------
(***************************************************************************)
(* What sel_free does to a tiled table.                                    *)
(***************************************************************************)

(* A blanked descriptor is a descriptor.                                   *)
LEMMA ReleasedType ==
  ASSUME NEW tab \in TabType, NEW i \in Index
  PROVE  Released(tab, i) \in TabType
<1>1. FreeDesc \in SelDesc
  BY SizeModAssumption, CountModAssumption DEF FreeDesc, SelDesc
<1> QED
  BY <1>1 DEF Released, TabType

(* sel_free of a head removes exactly its block: no slot of another goes   *)
(* with it and none of its own is left behind.                             *)
LEMMA ReleasedTiles ==
  ASSUME NEW tab \in TabType, Tiled(tab), NEW i \in Heads(tab)
  PROVE  /\ Tiled(Released(tab, i))
         /\ Heads(Released(tab, i)) = Heads(tab) \ {i}
         /\ \A h \in Heads(tab) \ {i} :
              Released(tab, i)[h].count = tab[h].count
<1> DEFINE new == Released(tab, i)
<1>1. /\ i \in Index
      /\ \A j \in Index : tab[j].count \in Nat
  BY CountModAssumption DEF Heads, TabType, SelDesc
<1>2. FreeCount(tab, i) = tab[i].count
  BY DEF Tiled, FreeCount
<1>3. \A k \in BlockAt(tab, i) : k \in Index => new[k] = FreeDesc
  BY <1>2 DEF Released, BlockAt, TabType
<1>4. \A k \in Index \ BlockAt(tab, i) : new[k] = tab[k]
  BY <1>2 DEF Released, BlockAt, TabType
<1> HIDE DEF new
<1>5. \A h \in Heads(tab) : BlockAt(tab, h) \subseteq Index
  BY <1>1, LimitAssumption DEF Tiled, BlockAt, Run, Index, Heads
<1>6. \A h \in Heads(tab) : h \in BlockAt(tab, h)
  BY <1>1 DEF Tiled, BlockAt, Run, Index, Heads
<1>7. ASSUME NEW h \in Heads(tab), NEW k \in BlockAt(tab, h),
             NEW g \in Heads(tab), k \in BlockAt(tab, g)
      PROVE  h = g
  <2>1. /\ h \in Index /\ tab[h].head /\ tab[h].count \in Nat
        /\ g \in Index /\ tab[g].head /\ tab[g].count \in Nat
    BY <1>1 DEF Heads
  <2>2. h \in Int /\ g \in Int /\ k \in Int
    BY <2>1 DEF Index, BlockAt, Run
  <2>3. h <= k /\ k <= h + tab[h].count - 1 /\ g <= k /\ k <= g + tab[g].count - 1
    BY <1>7, <2>1, <2>2 DEF BlockAt, Run
  <2>4. CASE g <= h
    <3>1. h \in BlockAt(tab, g)
      BY <2>1, <2>2, <2>3, <2>4 DEF BlockAt, Run
    <3> QED
      BY <3>1, <2>1 DEF Tiled
  <2>5. CASE h <= g
    <3>1. g \in BlockAt(tab, h)
      BY <2>1, <2>2, <2>3, <2>5 DEF BlockAt, Run
    <3> QED
      BY <3>1, <2>1 DEF Tiled
  <2> QED
    BY <2>2, <2>4, <2>5
<1>8. \A h \in Heads(tab) \ {i} : \A k \in BlockAt(tab, h) : new[k] = tab[k]
  BY <1>4, <1>5, <1>7
<1>9. FreeDesc.kind = "FREE"
  BY DEF FreeDesc
<1>10. Heads(new) = Heads(tab) \ {i}
  <2>1. ASSUME NEW h \in Heads(tab) \ {i} PROVE h \in Heads(new)
    BY <1>6, <1>8 DEF Heads
  <2>2. ASSUME NEW h \in Heads(new) PROVE h \in Heads(tab) \ {i}
    BY <1>3, <1>4, <1>6, <1>9 DEF Heads
  <2> QED
    BY <2>1, <2>2
<1>11. \A h \in Heads(new) : new[h] = tab[h] /\ BlockAt(new, h) = BlockAt(tab, h)
  BY <1>6, <1>8, <1>10 DEF BlockAt
<1>12. ASSUME NEW h \in Heads(new)
       PROVE  /\ new[h].count > 0
              /\ h + new[h].count <= SEL_LIMIT
              /\ \A k \in BlockAt(new, h) : /\ new[k].kind = new[h].kind
                                            /\ new[k].head <=> k = h
  BY <1>8, <1>10, <1>11 DEF Tiled
<1>13. ASSUME NEW j \in Index, new[j].kind # "FREE"
       PROVE  \E h \in Heads(new) : j \in BlockAt(new, h)
  <2>1. j \notin BlockAt(tab, i)
    BY <1>3, <1>9, <1>13
  <2>2. tab[j].kind # "FREE"
    BY <2>1, <1>4, <1>13
  <2>3. PICK h \in Heads(tab) : j \in BlockAt(tab, h)
    BY <2>2 DEF Tiled
  <2> QED
    BY <2>1, <2>3, <1>10, <1>11
<1> QED
  BY <1>10, <1>11, <1>12, <1>13 DEF Tiled, new

(* The mirror follows the table through sel_alloc.                         *)
LEMMA MirrorTaken ==
  ASSUME NEW tab \in TabType, NEW live \in [Index -> BOOLEAN], Mirrors(live, tab),
         NEW size \in Nat, NEW start \in Index, NEW kind \in Kinds
  PROVE  /\ Marked(live, start, SlotCount(size), TRUE) \in [Index -> BOOLEAN]
         /\ Mirrors(Marked(live, start, SlotCount(size), TRUE),
                    Taken(tab, start, size, kind))
BY DEF Mirrors, Marked, Taken, TabType, Kinds

(* The mirror follows the table through sel_free.                          *)
LEMMA MirrorReleased ==
  ASSUME NEW tab \in TabType, NEW live \in [Index -> BOOLEAN], Mirrors(live, tab),
         NEW i \in Index
  PROVE  /\ Marked(live, i, FreeCount(tab, i), FALSE) \in [Index -> BOOLEAN]
         /\ Mirrors(Marked(live, i, FreeCount(tab, i), FALSE), Released(tab, i))
BY DEF Mirrors, Marked, Released, TabType, FreeDesc

-----------------------------------------------------------------------------
(***************************************************************************)
(* The invariant, and each call.                                           *)
(***************************************************************************)

(* OneOwner is what makes the rest inductive: gmem_free only passes        *)
(* sel_free the head of a block, and ReleasedTiles needs a head.           *)
IInv ==
  /\ TableTypeOK
  /\ LiveMirrorsKind
  /\ BlocksTile
  /\ OneOwner
  /\ GuardSlotFree

(* A handle of either form names an index of the table.                    *)
LEMMA NamedIsIndex ==
  ASSUME NEW h \in Handle
  PROVE  Named(h) \in Index
<1>1. PICK i \in Index, m \in BOOLEAN : h = HandleOf(i, m)
  BY DEF Handle
<1>2. i \in Nat
  BY DEF Index
<1>3. h = 8 * i + 7 \/ h = 8 * i + 6
  BY <1>1, <1>2 DEF HandleOf, SelMake
<1>4. h \div 8 = i
  BY <1>2, <1>3
<1>5. (8 * i + 7) \div 8 = i
  BY <1>2
<1> QED
  BY <1>1, <1>4, <1>5 DEF Named, GmemSel, SelIndex

(* Requests are sizes, and the entry gmem writes for one has its type.     *)
LEMMA RequestType ==
  ASSUME NEW bytes \in Sizes
  PROVE  /\ Request(bytes) \in Nat /\ bytes \in Nat
         /\ \A m \in BOOLEAN : NewBlock(Request(bytes), m) \in GmemType
BY SizesAssumption, SizeModAssumption, LockAssumption
DEF Request, NewBlock, GmemType

(* The entry of a block that is not there has the type of entries.         *)
LEMMA NoBlockType == NoBlock \in GmemType
BY SizeModAssumption, LockAssumption DEF NoBlock, GmemType

(* Where sel_alloc lands: a run of free slots, none of them index 0.       *)
LEMMA FirstFitFits ==
  ASSUME TableTypeOK, NEW start, NEW n, FirstFit(start, n)
  PROVE  /\ start \in Index \ {0}
         /\ start + n <= SEL_LIMIT
         /\ \A i \in Run(start, n) : sel_tab[i].kind = "FREE"
BY LimitAssumption
DEF FirstFit, Candidates, Fits, TableTypeOK, SelTypeOK, Index

(* The empty arena.                                                        *)
LEMMA InitIInv == Init => IInv
<1> SUFFICES ASSUME Init PROVE IInv
  OBVIOUS
<1>1. FreeDesc \in SelDesc /\ FreeDesc.kind = "FREE"
  BY SizeModAssumption, CountModAssumption DEF FreeDesc, SelDesc
<1>2. TableTypeOK
  BY <1>1, NoBlockType, LimitAssumption
  DEF Init, SelInit, TableTypeOK, SelTypeOK, TabType, Index
<1>3. Heads(sel_tab) = {}
  BY <1>1 DEF Init, SelInit, Heads
<1>4. LiveMirrorsKind
  BY <1>1 DEF Init, SelInit, LiveMirrorsKind, Mirrors
<1>5. BlocksTile
  BY <1>1, <1>3 DEF Init, SelInit, BlocksTile, Tiled
<1>6. OneOwner
  BY <1>3 DEF Init, OneOwner, Held, NoBlock
<1>7. GuardSlotFree
  BY LimitAssumption DEF Init, SelInit, GuardSlotFree, Index
<1> QED
  BY <1>2, <1>4, <1>5, <1>6, <1>7 DEF IInv

(* sel_alloc, whoever calls it, adds one head and keeps the table sound.   *)
LEMMA SelAllocStep ==
  ASSUME CountFits, IInv, NEW start \in Index, NEW size \in Nat,
         NEW kind \in Kinds, SelAlloc(start, size, kind)
  PROVE  /\ SelTypeOK'
         /\ LiveMirrorsKind'
         /\ BlocksTile'
         /\ Heads(sel_tab)' = Heads(sel_tab) \cup {start}
         /\ start \notin Heads(sel_tab)
         /\ GuardSlotFree'
<1>1. /\ start \in Index \ {0}
      /\ start + SlotCount(size) <= SEL_LIMIT
      /\ \A i \in Run(start, SlotCount(size)) : sel_tab[i].kind = "FREE"
  BY FirstFitFits DEF SelAlloc, IInv
<1>2. SlotCount(size) \in Nat \ {0}
  BY SlotCountPositive
<1>3. sel_tab \in TabType /\ sel_live \in [Index -> BOOLEAN]
      /\ sel_next \in 1 .. SEL_LIMIT
  BY DEF IInv, TableTypeOK, SelTypeOK
<1>4. sel_next' \in 1 .. SEL_LIMIT
  BY <1>1, <1>2, <1>3, LimitAssumption DEF SelAlloc, NextAfterAlloc, Index
<1>5. sel_tab' = Taken(sel_tab, start, size, kind)
      /\ sel_live' = Marked(sel_live, start, SlotCount(size), TRUE)
  BY DEF SelAlloc
<1>6. sel_tab' \in TabType
  BY <1>3, <1>5, TakenType DEF Index
<1>7. /\ sel_live' \in [Index -> BOOLEAN]
      /\ Mirrors(sel_live', sel_tab')
  BY <1>3, <1>5, MirrorTaken DEF IInv, LiveMirrorsKind
<1>8. /\ Tiled(sel_tab')
      /\ Heads(sel_tab') = Heads(sel_tab) \cup {start}
      /\ start \notin Heads(sel_tab)
  BY <1>1, <1>3, <1>5, TakenTiles DEF IInv, BlocksTile
<1>9. sel_tab'[0] = sel_tab[0]
  BY <1>1, <1>2, <1>3, <1>5, LimitAssumption DEF Taken, Run, TabType, Index
<1> QED
  BY <1>4, <1>6, <1>7, <1>8, <1>9
  DEF SelTypeOK, LiveMirrorsKind, BlocksTile, GuardSlotFree, IInv

(* sel_free of a head removes that head and keeps the table sound.         *)
LEMMA SelFreeStep ==
  ASSUME NEW tab \in TabType, NEW live \in [Index -> BOOLEAN],
         NEW next \in 1 .. SEL_LIMIT, Tiled(tab), Mirrors(live, tab),
         NEW i \in Heads(tab), tab[0] = FreeDesc
  PROVE  /\ Released(tab, i) \in TabType
         /\ Marked(live, i, FreeCount(tab, i), FALSE) \in [Index -> BOOLEAN]
         /\ NextAfterFree(next, i) \in 1 .. SEL_LIMIT
         /\ Mirrors(Marked(live, i, FreeCount(tab, i), FALSE), Released(tab, i))
         /\ Tiled(Released(tab, i))
         /\ Heads(Released(tab, i)) = Heads(tab) \ {i}
         /\ Released(tab, i)[0] = FreeDesc
<1>1. i \in Index \ {0}
  BY DEF Heads, FreeDesc
<1>2. NextAfterFree(next, i) \in 1 .. SEL_LIMIT
  BY <1>1, LimitAssumption DEF NextAfterFree, Index
<1>3. Released(tab, i)[0] = FreeDesc
  BY LimitAssumption DEF Released, TabType, Index
<1> QED
  BY <1>1, <1>2, <1>3, ReleasedType, MirrorReleased, ReleasedTiles

(* A loaded segment is one more head, and one more segment.                *)
LEMMA LoadSegmentIInv ==
  ASSUME CountFits, IInv, NEW size \in Sizes, NEW kind \in Kinds,
         LoadSegment(Request(size), kind)
  PROVE  IInv'
<1>1. PICK start \in Index : /\ SelAlloc(start, Request(size), kind)
                             /\ segments' = segments \cup {start}
  BY DEF LoadSegment
<1>2. gmem' = gmem /\ Held' = Held
  BY DEF LoadSegment, Held
<1>3. /\ SelTypeOK' /\ LiveMirrorsKind' /\ BlocksTile' /\ GuardSlotFree'
      /\ Heads(sel_tab)' = Heads(sel_tab) \cup {start}
      /\ start \notin Heads(sel_tab)
  BY <1>1, SelAllocStep, RequestType
<1>4. OneOwner'
  BY <1>1, <1>2, <1>3 DEF IInv, OneOwner
<1>5. TableTypeOK'
  BY <1>1, <1>2, <1>3 DEF IInv, TableTypeOK
<1> QED
  BY <1>3, <1>4, <1>5 DEF IInv

(* GlobalAlloc gives the new head to gmem, or does nothing at all.         *)
LEMMA GlobalAllocIInv ==
  ASSUME CountFits, IInv, NEW bytes \in Sizes, NEW m \in Moveable,
         GlobalAlloc(bytes, m)
  PROVE  IInv'
<1>1. CASE UNCHANGED vars
  BY <1>1 DEF vars, selvars, IInv, TableTypeOK, SelTypeOK, LiveMirrorsKind,
              BlocksTile, OneOwner, GuardSlotFree, Held
<1>2. ASSUME NEW start \in Index,
             SelAlloc(start, Request(bytes), "DATA"),
             gmem' = [gmem EXCEPT ![start] = NewBlock(Request(bytes), m)],
             segments' = segments
      PROVE  IInv'
  <2>1. /\ SelTypeOK' /\ LiveMirrorsKind' /\ BlocksTile' /\ GuardSlotFree'
        /\ Heads(sel_tab)' = Heads(sel_tab) \cup {start}
        /\ start \notin Heads(sel_tab)
    BY <1>2, SelAllocStep, RequestType DEF Kinds
  <2>2. NewBlock(Request(bytes), m) \in GmemType
    BY RequestType, MoveableAssumption
  <2>3. gmem \in [Index -> GmemType] /\ gmem' \in [Index -> GmemType]
    BY <1>2, <2>2 DEF IInv, TableTypeOK
  <2>4. Held' = Held \cup {start}
    BY <1>2, <2>3 DEF Held, NewBlock
  <2>5. OneOwner'
    BY <1>2, <2>1, <2>4 DEF IInv, OneOwner
  <2>6. TableTypeOK'
    BY <1>2, <2>1, <2>3 DEF IInv, TableTypeOK
  <2> QED
    BY <2>1, <2>5, <2>6 DEF IInv
<1> QED
  BY <1>1, <1>2 DEF GlobalAlloc

(* A call that rewrites the entry of a block in use, and leaves it in use, *)
(* moves no ownership: GMEM_MODIFY, a shrink, a lock, an unlock.           *)
LEMMA EntryIInv ==
  ASSUME IInv, NEW i \in Held, NEW e \in GmemType, e.used,
         gmem' = [gmem EXCEPT ![i] = e], UNCHANGED <<selvars, segments>>
  PROVE  IInv'
<1>1. gmem \in [Index -> GmemType] /\ gmem' \in [Index -> GmemType]
  BY DEF IInv, TableTypeOK, Held
<1>2. Held' = Held
  BY <1>1 DEF Held
<1> QED
  BY <1>1, <1>2 DEF selvars, IInv, TableTypeOK, SelTypeOK, LiveMirrorsKind,
                    BlocksTile, OneOwner, GuardSlotFree

(* GlobalFree takes the head from gmem and its slots from the table.       *)
LEMMA GlobalFreeIInv ==
  ASSUME IInv, NEW h \in Handle, GlobalFree(h)
  PROVE  IInv'
<1> DEFINE i == Named(h)
<1>1. i \in Index /\ i \in Held
  BY NamedIsIndex DEF GlobalFree, Valid, Held
<1>2. /\ sel_tab' = Released(sel_tab, i)
      /\ sel_live' = Marked(sel_live, i, FreeCount(sel_tab, i), FALSE)
      /\ sel_next' = NextAfterFree(sel_next, i)
      /\ gmem' = [gmem EXCEPT ![i] = NoBlock]
      /\ segments' = segments
  BY DEF GlobalFree
<1> HIDE DEF i
<1>3. i \in Heads(sel_tab)
  BY <1>1 DEF IInv, OneOwner
<1>4. /\ SelTypeOK' /\ LiveMirrorsKind' /\ BlocksTile' /\ GuardSlotFree'
      /\ Heads(sel_tab)' = Heads(sel_tab) \ {i}
  BY <1>2, <1>3, SelFreeStep
  DEF IInv, TableTypeOK, SelTypeOK, LiveMirrorsKind, BlocksTile, GuardSlotFree
<1>5. gmem \in [Index -> GmemType] /\ gmem' \in [Index -> GmemType]
  BY <1>1, <1>2, NoBlockType DEF IInv, TableTypeOK
<1>6. Held' = Held \ {i}
  BY <1>1, <1>2, <1>5 DEF Held, NoBlock
<1>7. OneOwner'
  BY <1>1, <1>2, <1>4, <1>6 DEF IInv, OneOwner
<1>8. TableTypeOK'
  BY <1>2, <1>4, <1>5 DEF IInv, TableTypeOK
<1> QED
  BY <1>4, <1>7, <1>8 DEF IInv

(* A growing GlobalReAlloc: the new block is taken while the old one is    *)
(* still there, so the two never share a slot, and then the old one goes.  *)
LEMMA ReAllocMoveIInv ==
  ASSUME CountFits, IInv, NEW h \in Handle, NEW bytes \in Sizes,
         NEW m \in Moveable, ReAllocMove(h, bytes, m)
  PROVE  IInv'
<1> DEFINE i == Named(h)
           n == SlotCount(bytes)
<1>1. i \in Index /\ i \in Held /\ bytes \in Nat /\ bytes > gmem[i].size
  BY NamedIsIndex, RequestType DEF ReAllocMove, Valid, Held
<1>2. PICK start \in Index :
        /\ FirstFit(start, n)
        /\ sel_tab'  = Released(Taken(sel_tab, start, bytes, "DATA"), i)
        /\ sel_live' = Marked(Marked(sel_live, start, n, TRUE),
                              i, FreeCount(sel_tab, i), FALSE)
        /\ sel_next' = NextAfterFree(NextAfterAlloc(sel_next, start, n), i)
        /\ gmem' = [gmem EXCEPT ![start] = NewBlock(bytes, m), ![i] = NoBlock]
  BY DEF ReAllocMove
<1>3. segments' = segments
  BY DEF ReAllocMove
<1> DEFINE tab  == Taken(sel_tab, start, bytes, "DATA")
           live == Marked(sel_live, start, n, TRUE)
           next == NextAfterAlloc(sel_next, start, n)
<1>4. n \in Nat \ {0}
  BY <1>1, SlotCountPositive
<1>5. /\ start \in Index \ {0}
      /\ start + n <= SEL_LIMIT
      /\ \A k \in Run(start, n) : sel_tab[k].kind = "FREE"
  BY <1>2, FirstFitFits DEF IInv
<1>6. /\ sel_tab \in TabType /\ sel_live \in [Index -> BOOLEAN]
      /\ sel_next \in 1 .. SEL_LIMIT /\ gmem \in [Index -> GmemType]
  BY DEF IInv, TableTypeOK, SelTypeOK
<1>7. i \in Heads(sel_tab)
  BY <1>1 DEF IInv, OneOwner
<1>8. /\ Tiled(tab)
      /\ Heads(tab) = Heads(sel_tab) \cup {start}
      /\ start \notin Heads(sel_tab)
      /\ tab[i].count = sel_tab[i].count
  BY <1>1, <1>5, <1>6, <1>7, TakenTiles DEF IInv, BlocksTile, Kinds
<1>9. tab \in TabType
  BY <1>1, <1>5, <1>6, TakenType DEF Index, Kinds
<1>10. live \in [Index -> BOOLEAN] /\ Mirrors(live, tab)
  BY <1>1, <1>5, <1>6, MirrorTaken DEF IInv, LiveMirrorsKind, Kinds
<1>11. next \in 1 .. SEL_LIMIT
  BY <1>4, <1>5, <1>6, LimitAssumption DEF NextAfterAlloc, Index
<1>12. tab[0] = FreeDesc
  BY <1>4, <1>5, <1>6, LimitAssumption
  DEF Taken, Run, TabType, Index, IInv, GuardSlotFree
<1>13. FreeCount(tab, i) = FreeCount(sel_tab, i)
  BY <1>8 DEF FreeCount
<1>14. NewBlock(bytes, m) \in GmemType
  <2>1. Request(bytes) = bytes
    BY <1>1, <1>6 DEF Request, GmemType
  <2> QED
    BY <2>1, RequestType, MoveableAssumption
<1> HIDE DEF i, n, tab, live, next
<1>15. /\ SelTypeOK' /\ LiveMirrorsKind' /\ BlocksTile' /\ GuardSlotFree'
       /\ Heads(sel_tab)' = (Heads(sel_tab) \cup {start}) \ {i}
  <2>1. /\ sel_tab' = Released(tab, i)
        /\ sel_live' = Marked(live, i, FreeCount(tab, i), FALSE)
        /\ sel_next' = NextAfterFree(next, i)
    BY <1>2, <1>13 DEF tab, live, next, n
  <2> QED
    BY <2>1, <1>7, <1>8, <1>9, <1>10, <1>11, <1>12, SelFreeStep
    DEF SelTypeOK, LiveMirrorsKind, BlocksTile, GuardSlotFree
<1>16. start # i
  BY <1>7, <1>8
<1>17. gmem' \in [Index -> GmemType]
  BY <1>1, <1>2, <1>6, <1>14, NoBlockType DEF i
<1>18. Held' = (Held \cup {start}) \ {i}
  <2>1. /\ gmem'[i].used = FALSE
        /\ gmem'[start].used = TRUE
        /\ \A k \in Index \ {i, start} : gmem'[k] = gmem[k]
    BY <1>1, <1>2, <1>6, <1>16 DEF NewBlock, NoBlock, i
  <2> QED
    BY <2>1, <1>1, <1>5, <1>16 DEF Held
<1>19. OneOwner'
  BY <1>1, <1>3, <1>8, <1>15, <1>16, <1>18 DEF IInv, OneOwner
<1>20. TableTypeOK'
  BY <1>3, <1>15, <1>17 DEF IInv, TableTypeOK
<1> QED
  BY <1>15, <1>19, <1>20 DEF IInv

(* A step that touches neither table nor owners keeps the invariant.       *)
LEMMA UntouchedIInv ==
  ASSUME IInv, UNCHANGED <<sel_tab, sel_live, sel_next, gmem, segments>>
  PROVE  IInv'
BY DEF IInv, TableTypeOK, SelTypeOK, LiveMirrorsKind, BlocksTile, OneOwner,
       GuardSlotFree, Held

(* Every call keeps the invariant.                                         *)
LEMMA NextIInv ==
  ASSUME CountFits, IInv, [Next]_vars
  PROVE  IInv'
<1>1. ASSUME NEW size \in Sizes, NEW kind \in Kinds,
             LoadSegment(Request(size), kind)
      PROVE  IInv'
  BY <1>1, LoadSegmentIInv
<1>2. ASSUME NEW bytes \in Sizes, NEW m \in Moveable, GlobalAlloc(bytes, m)
      PROVE  IInv'
  BY <1>2, GlobalAllocIInv
<1>3. ASSUME NEW h \in Handle, Valid(h)
      PROVE  /\ Named(h) \in Held
             /\ gmem[Named(h)] \in GmemType
             /\ gmem[Named(h)].used
  BY <1>3, NamedIsIndex DEF Valid, Held, IInv, TableTypeOK
<1>4. ASSUME NEW h \in Handle, NEW m \in Moveable, ReAllocModify(h, m)
      PROVE  IInv'
  <2> DEFINE e == [gmem[Named(h)] EXCEPT !.moveable = m]
  <2>1. /\ Named(h) \in Held /\ e \in GmemType /\ e.used
        /\ gmem' = [gmem EXCEPT ![Named(h)] = e]
    BY <1>3, <1>4, MoveableAssumption DEF ReAllocModify, GmemType
  <2> QED
    BY <1>4, <2>1, EntryIInv DEF ReAllocModify
<1>5. ASSUME NEW h \in Handle, NEW bytes \in Sizes, ReAllocShrink(h, bytes)
      PROVE  IInv'
  <2> DEFINE e == [gmem[Named(h)] EXCEPT !.size = Request(bytes)]
  <2>1. Request(bytes) \in Nat
    BY RequestType
  <2>2. /\ Named(h) \in Held
        /\ gmem[Named(h)] \in GmemType /\ gmem[Named(h)].used
        /\ gmem' = [gmem EXCEPT ![Named(h)] = e]
        /\ Request(bytes) <= gmem[Named(h)].size
    BY <1>3, <1>5 DEF ReAllocShrink
  <2>3. Request(bytes) \in 0 .. SIZE_MOD - 1
    BY <2>1, <2>2, SizeModAssumption DEF GmemType
  <2>4. e \in GmemType /\ e.used
    BY <2>2, <2>3 DEF GmemType
  <2> QED
    BY <1>5, <2>2, <2>4, EntryIInv DEF ReAllocShrink
<1>6. ASSUME NEW h \in Handle, NEW bytes \in Sizes, NEW m \in Moveable,
             ReAllocMove(h, bytes, m)
      PROVE  IInv'
  BY <1>6, ReAllocMoveIInv
<1>7. ASSUME NEW h \in Handle, GlobalFree(h)
      PROVE  IInv'
  BY <1>7, GlobalFreeIInv
<1>8. ASSUME NEW h \in Handle, GlobalLock(h)
      PROVE  IInv'
  <2> DEFINE e == [gmem[Named(h)] EXCEPT !.lock = @ + 1]
  <2>1. /\ Named(h) \in Held /\ e \in GmemType /\ e.used
        /\ gmem' = [gmem EXCEPT ![Named(h)] = e]
    BY <1>3, <1>8, LockAssumption DEF GlobalLock, GmemType
  <2> QED
    BY <1>8, <2>1, EntryIInv DEF GlobalLock
<1>9. ASSUME NEW h \in Handle, GlobalUnlock(h)
      PROVE  IInv'
  <2> DEFINE e == [gmem[Named(h)] EXCEPT !.lock = @ - 1]
  <2>1. /\ Named(h) \in Held /\ e \in GmemType /\ e.used
        /\ gmem' = [gmem EXCEPT ![Named(h)] = e]
    BY <1>3, <1>9, LockAssumption DEF GlobalUnlock, GmemType
  <2> QED
    BY <1>9, <2>1, EntryIInv DEF GlobalUnlock
<1>10. ASSUME NEW h \in Handle,
              StaleHandle(h) \/ \E bytes \in Sizes : ReAllocFail(h, bytes)
       PROVE  IInv'
  BY <1>10, UntouchedIInv DEF StaleHandle, ReAllocFail, vars, selvars
<1>11. ASSUME NEW i \in Index, NEW off \in 0 .. SLOT - 1, NEW v \in Byte,
              GuestWrite(i, off, v)
       PROVE  IInv'
  BY <1>11, UntouchedIInv DEF GuestWrite
<1>12. CASE UNCHANGED vars
  BY <1>12, UntouchedIInv DEF vars, selvars
<1> QED
  BY <1>1, <1>2, <1>4, <1>5, <1>6, <1>7, <1>8, <1>9, <1>10, <1>11, <1>12
  DEF Next

(* The invariant holds of every behaviour of an arena whose runs           *)
(* SelDesc.count can hold.                                                 *)
THEOREM HeapInvariant == CountFits => (Spec => []IInv)
<1> SUFFICES ASSUME CountFits PROVE Spec => []IInv
  OBVIOUS
<1>1. Init => IInv
  BY InitIInv
<1>2. IInv /\ [Next]_vars => IInv'
  BY NextIInv
<1> QED
  BY <1>1, <1>2, PTL DEF Spec

(* The live slots are always tiled by blocks: no two blocks ever share a   *)
(* slot, and sel_free, trusting a descriptor's count, frees one block.     *)
THEOREM BlocksAlwaysTile == CountFits => (Spec => []BlocksTile)
<1>1. IInv => BlocksTile
  BY DEF IInv
<1> QED
  BY <1>1, HeapInvariant, PTL

(* Nothing is leaked and nothing is owned twice: every block of the table  *)
(* is a gmem entry in use or a segment, and never both.                    *)
THEOREM AlwaysOneOwner == CountFits => (Spec => []OneOwner)
<1>1. IInv => OneOwner
  BY DEF IInv
<1> QED
  BY <1>1, HeapInvariant, PTL

(* The byte sel_ptr tests on every guest access always agrees with the     *)
(* descriptor it stands for.                                               *)
THEOREM LiveAlwaysMirrors == CountFits => (Spec => []LiveMirrorsKind)
<1>1. IInv => LiveMirrorsKind
  BY DEF IInv
<1> QED
  BY <1>1, HeapInvariant, PTL

-----------------------------------------------------------------------------
(***************************************************************************)
(* Room.  Rounding a request up to slots is done in 32 bits, and the next  *)
(* theorems are about requests it does not wrap for.                       *)
(***************************************************************************)

NoWrap == \A s \in Sizes : Request(s) + SLOT - 1 < SIZE_MOD

(* Without a wrap the slots of a request hold what was asked for.          *)
LEMMA SlotCountCovers ==
  ASSUME NEW size \in Nat, size + SLOT - 1 < SIZE_MOD
  PROVE  size <= SlotCount(size) * SLOT
<1> DEFINE x == size + SLOT - 1
           q == x \div SLOT
<1>1. x \in Nat /\ x % SIZE_MOD = x
  BY SlotAssumption, SizeModAssumption
<1>2. q \in Nat /\ x % SLOT \in 0 .. SLOT - 1 /\ x = q * SLOT + (x % SLOT)
  BY <1>1, SlotAssumption
<1>3. q * SLOT \in Nat
  BY <1>2, SlotAssumption
<1>4. size <= q * SLOT
  BY <1>2, <1>3, SlotAssumption
<1>5. CASE size = 0
  BY <1>5, SlotAssumption, SlotCountPositive DEF SlotCount
<1>6. CASE size # 0
  <2>1. q # 0
    BY <1>2, <1>4, <1>6, SlotAssumption
  <2>2. SlotCount(size) = q
    BY <1>1, <1>6, <2>1 DEF SlotCount
  <2> QED
    BY <2>2, <1>4
<1> QED
  BY <1>5, <1>6

(* Bytes of a block are bytes of the arena.                                *)
LEMMA BlockInArena ==
  ASSUME NEW i \in Index, NEW c \in Nat, i + c <= SEL_LIMIT
  PROVE  /\ i * SLOT \in Nat /\ c * SLOT \in Nat /\ SEL_LIMIT * SLOT \in Nat
         /\ i * SLOT + c * SLOT <= SEL_LIMIT * SLOT
<1>1. i \in Nat /\ SEL_LIMIT \in Nat /\ SLOT \in Nat
  BY LimitAssumption, SlotAssumption DEF Index
<1>2. i * SLOT \in Nat /\ c * SLOT \in Nat /\ SEL_LIMIT * SLOT \in Nat
  BY <1>1
<1>3. PICK d \in Nat : SEL_LIMIT = i + c + d
  <2>1. SEL_LIMIT - (i + c) \in Nat /\ SEL_LIMIT = i + c + (SEL_LIMIT - (i + c))
    BY <1>1
  <2> QED
    BY <2>1
<1>4. d * SLOT \in Nat /\ (i + c + d) * SLOT = i * SLOT + c * SLOT + d * SLOT
  BY <1>1
<1> QED
  BY <1>2, <1>3, <1>4

RoomInv ==
  /\ IInv
  /\ BlocksCoverSize
  /\ ArenaTypeOK

(* Fresh slots read as bytes.                                              *)
LEMMA ZeroedType ==
  ASSUME NEW bytes \in [Address -> Byte], NEW start, NEW n
  PROVE  Zeroed(bytes, start, n) \in [Address -> Byte]
BY ByteAssumption DEF Zeroed

(* memcpy stays inside the old block, so it reads nothing but bytes.       *)
LEMMA CopiedType ==
  ASSUME NEW bytes \in [Address -> Byte], NEW i \in Index, NEW start \in Index,
         NEW c \in Nat, i + c <= SEL_LIMIT,
         NEW keep \in Nat, keep <= c * SLOT
  PROVE  Copied(bytes, i, start, keep) \in [Address -> Byte]
<1>1. /\ i * SLOT \in Nat /\ c * SLOT \in Nat /\ SEL_LIMIT * SLOT \in Nat
      /\ i * SLOT + c * SLOT <= SEL_LIMIT * SLOT
  BY BlockInArena
<1>2. start * SLOT \in Nat
  BY SlotAssumption DEF Index
<1> DEFINE from == i * SLOT
           to   == start * SLOT
           top  == SEL_LIMIT * SLOT
<1>3. Address = 0 .. top - 1
  BY DEF Address
<1>4. ASSUME NEW a \in to .. to + keep - 1
      PROVE  from + (a - to) \in Address
  <2> DEFINE room == c * SLOT
  <2>1. from \in Nat /\ to \in Nat /\ top \in Nat /\ room \in Nat
        /\ from + room <= top /\ keep <= room
    BY <1>1, <1>2
  <2> HIDE DEF from, to, top, room
  <2>2. a \in Int /\ to <= a /\ a <= to + keep - 1
    BY <2>1
  <2> QED
    BY <2>1, <2>2, <1>3
<1>5. Copied(bytes, i, start, keep) =
        [a \in Address |-> IF a \in to .. to + keep - 1
                           THEN bytes[from + (a - to)] ELSE bytes[a]]
  BY DEF Copied
<1> HIDE DEF from, to, top
<1>6. \A a \in Address :
        (IF a \in to .. to + keep - 1 THEN bytes[from + (a - to)] ELSE bytes[a])
          \in Byte
  BY <1>4
<1> QED
  BY <1>5, <1>6

(* A new block has room for its request, and the old blocks for theirs.    *)
LEMMA SelAllocRoom ==
  ASSUME CountFits, RoomInv, NEW start \in Index,
         NEW size \in Nat, size + SLOT - 1 < SIZE_MOD,
         NEW kind \in Kinds, FirstFit(start, SlotCount(size))
  PROVE  LET tab == Taken(sel_tab, start, size, kind) IN
         /\ size <= tab[start].count * SLOT
         /\ \A i \in Held : /\ i # start
                            /\ tab[i].count = sel_tab[i].count
                            /\ gmem[i].size <= tab[i].count * SLOT
<1> DEFINE tab == Taken(sel_tab, start, size, kind)
<1>1. /\ start \in Index \ {0}
      /\ start + SlotCount(size) <= SEL_LIMIT
      /\ \A i \in Run(start, SlotCount(size)) : sel_tab[i].kind = "FREE"
  BY FirstFitFits DEF RoomInv, IInv
<1>2. /\ start \notin Heads(sel_tab)
      /\ \A i \in Heads(sel_tab) : tab[i].count = sel_tab[i].count
  BY <1>1, TakenTiles
  DEF RoomInv, IInv, TableTypeOK, SelTypeOK, BlocksTile
<1>3. tab[start].count = SlotCount(size)
  <2>1. SlotCount(size) % COUNT_MOD = SlotCount(size)
    BY <1>1, CountIsExact DEF Index
  <2>2. start \in Run(start, SlotCount(size))
    BY <1>1, SlotCountPositive DEF Run, Index
  <2> QED
    BY <2>1, <2>2 DEF Taken, RoomInv, IInv, TableTypeOK, SelTypeOK, TabType
<1>4. size <= tab[start].count * SLOT
  BY <1>3, SlotCountCovers
<1>5. \A i \in Held : i \in Heads(sel_tab) /\ gmem[i].size <= sel_tab[i].count * SLOT
  BY DEF RoomInv, IInv, OneOwner, BlocksCoverSize, Held
<1> QED
  BY <1>2, <1>4, <1>5

(* sel_free of one block leaves the others the room they had.              *)
LEMMA SelFreeRoom ==
  ASSUME IInv, NEW i \in Held
  PROVE  \A h \in Held \ {i} : Released(sel_tab, i)[h].count = sel_tab[h].count
<1>1. Held \subseteq Heads(sel_tab)
  BY DEF IInv, OneOwner
<1> QED
  BY <1>1, ReleasedTiles DEF IInv, BlocksTile, TableTypeOK, SelTypeOK

(* Every call keeps room for what gmem says a block holds.                 *)
LEMMA NextRoom ==
  ASSUME CountFits, NoWrap, RoomInv, [Next]_vars
  PROVE  RoomInv'
<1>1. IInv'
  BY NextIInv DEF RoomInv
<1>2. /\ IInv /\ arena \in [Address -> Byte]
      /\ gmem \in [Index -> GmemType] /\ gmem' \in [Index -> GmemType]
      /\ sel_tab \in TabType /\ sel_tab' \in TabType
      /\ \A i \in Held : gmem[i].size <= sel_tab[i].count * SLOT
  BY <1>1 DEF RoomInv, IInv, TableTypeOK, SelTypeOK, BlocksCoverSize, ArenaTypeOK, Held
<1>3. \A bytes \in Sizes : /\ Request(bytes) \in Nat
                           /\ Request(bytes) + SLOT - 1 < SIZE_MOD
  BY RequestType DEF NoWrap
<1>4. SUFFICES /\ arena' \in [Address -> Byte]
               /\ \A i \in Held' : gmem'[i].size <= sel_tab'[i].count * SLOT
  BY <1>1 DEF RoomInv, BlocksCoverSize, ArenaTypeOK, Held
<1>5. ASSUME NEW size \in Sizes, NEW kind \in Kinds,
             LoadSegment(Request(size), kind)
      PROVE  /\ arena' \in [Address -> Byte]
             /\ \A i \in Held' : gmem'[i].size <= sel_tab'[i].count * SLOT
  <2>1. PICK start \in Index : SelAlloc(start, Request(size), kind)
    BY <1>5 DEF LoadSegment
  <2>2. gmem' = gmem /\ Held' = Held
    BY <1>5 DEF LoadSegment, Held
  <2>3. \A i \in Held : gmem[i].size <= sel_tab'[i].count * SLOT
    BY <1>3, <2>1, SelAllocRoom DEF SelAlloc
  <2>4. arena' \in [Address -> Byte]
    BY <1>2, <2>1, ZeroedType DEF SelAlloc
  <2> QED
    BY <2>2, <2>3, <2>4
<1>6. ASSUME NEW bytes \in Sizes, NEW m \in Moveable, NEW start \in Index,
             SelAlloc(start, Request(bytes), "DATA"),
             gmem' = [gmem EXCEPT ![start] = NewBlock(Request(bytes), m)]
      PROVE  /\ arena' \in [Address -> Byte]
             /\ \A i \in Held' : gmem'[i].size <= sel_tab'[i].count * SLOT
  <2>1. /\ Request(bytes) <= sel_tab'[start].count * SLOT
        /\ \A i \in Held : i # start /\ gmem[i].size <= sel_tab'[i].count * SLOT
    BY <1>3, <1>6, SelAllocRoom DEF SelAlloc, Kinds
  <2>2. gmem'[start].size = Request(bytes)
        /\ \A i \in Held' \ {start} : i \in Held /\ gmem'[i] = gmem[i]
    BY <1>2, <1>6 DEF Held, NewBlock
  <2>3. arena' \in [Address -> Byte]
    BY <1>2, <1>6, ZeroedType DEF SelAlloc
  <2> QED
    BY <2>1, <2>2, <2>3
<1>7. ASSUME NEW h \in Handle, NEW bytes \in Sizes, NEW m \in Moveable,
             ReAllocMove(h, bytes, m)
      PROVE  /\ arena' \in [Address -> Byte]
             /\ \A i \in Held' : gmem'[i].size <= sel_tab'[i].count * SLOT
  <2> DEFINE j == Named(h)
             n == SlotCount(bytes)
  <2>1. j \in Index /\ j \in Held /\ bytes \in Nat /\ bytes > gmem[j].size
    BY <1>7, NamedIsIndex, RequestType DEF ReAllocMove, Valid, Held
  <2>2. Request(bytes) = bytes
    BY <1>2, <2>1 DEF Request, GmemType
  <2>3. PICK start \in Index :
          /\ FirstFit(start, n)
          /\ sel_tab' = Released(Taken(sel_tab, start, bytes, "DATA"), j)
          /\ arena' = Copied(Zeroed(arena, start, n), j, start, gmem[j].size)
          /\ gmem' = [gmem EXCEPT ![start] = NewBlock(bytes, m), ![j] = NoBlock]
    BY <1>7 DEF ReAllocMove
  <2> DEFINE new == Taken(sel_tab, start, bytes, "DATA")
  <2>4. /\ bytes <= new[start].count * SLOT
        /\ \A i \in Held : /\ i # start
                           /\ new[i].count = sel_tab[i].count
                           /\ gmem[i].size <= new[i].count * SLOT
    BY <1>3, <2>1, <2>2, <2>3, SelAllocRoom DEF Kinds
  <2>5. /\ start \in Index \ {0}
        /\ start + n <= SEL_LIMIT
        /\ \A k \in Run(start, n) : sel_tab[k].kind = "FREE"
    BY <1>2, <2>3, FirstFitFits DEF IInv
  <2>6. /\ new \in TabType /\ Tiled(new)
        /\ Heads(new) = Heads(sel_tab) \cup {start}
    <3> HIDE DEF new
    <3>1. new \in TabType
      <4>1. sel_tab \in TabType /\ start \in Nat /\ bytes \in Nat
        BY <1>2, <2>1, <2>5 DEF Index
      <4> QED
        BY <4>1, TakenType DEF Kinds, new
    <3> USE DEF new
    <3>2. Tiled(sel_tab)
      BY <1>2 DEF IInv, BlocksTile
    <3> QED
      BY <1>2, <2>1, <2>5, <3>1, <3>2, TakenTiles DEF Kinds
  <2>7. Held \subseteq Heads(sel_tab)
    BY <1>2 DEF IInv, OneOwner
  <2>8. \A i \in (Held \cup {start}) \ {j} : sel_tab'[i].count = new[i].count
    BY <2>1, <2>3, <2>6, <2>7, ReleasedTiles
  <2>9. /\ gmem'[start].size = bytes
        /\ j \notin Held'
        /\ \A i \in Held' \ {start} : i \in Held \ {j} /\ gmem'[i] = gmem[i]
    <3>1. start # j
      BY <2>1, <2>4
    <3> QED
      BY <1>2, <2>1, <2>3, <3>1 DEF Held, NewBlock, NoBlock
  <2>10. arena' \in [Address -> Byte]
    <3> DEFINE c == sel_tab[j].count
    <3>1. j + c <= SEL_LIMIT /\ c \in Nat
      BY <1>2, <2>1, <2>7, CountModAssumption
      DEF IInv, BlocksTile, Tiled, TabType, SelDesc
    <3>2. gmem[j].size \in Nat /\ gmem[j].size <= c * SLOT
      BY <1>2, <2>1 DEF GmemType
    <3>3. Zeroed(arena, start, n) \in [Address -> Byte]
      BY <1>2, ZeroedType
    <3> QED
      BY <2>1, <2>3, <3>1, <3>2, <3>3, CopiedType
  <2> HIDE DEF j, n, new
  <2>11. ASSUME NEW i \in Held'
         PROVE  gmem'[i].size <= sel_tab'[i].count * SLOT
    <3>1. CASE i = start
      BY <3>1, <2>4, <2>8, <2>9, <2>11
    <3>2. CASE i # start
      BY <3>2, <2>4, <2>8, <2>9, <2>11
    <3> QED
      BY <3>1, <3>2
  <2> QED
    BY <2>10, <2>11
<1>8. ASSUME NEW h \in Handle, GlobalFree(h)
      PROVE  /\ arena' \in [Address -> Byte]
             /\ \A i \in Held' : gmem'[i].size <= sel_tab'[i].count * SLOT
  <2>1. Named(h) \in Held /\ sel_tab' = Released(sel_tab, Named(h))
        /\ gmem' = [gmem EXCEPT ![Named(h)] = NoBlock] /\ arena' = arena
    BY <1>8, NamedIsIndex DEF GlobalFree, Valid, Held
  <2>2. \A i \in Held' : i \in Held \ {Named(h)} /\ gmem'[i] = gmem[i]
    BY <1>2, <2>1 DEF Held, NoBlock
  <2> QED
    BY <1>2, <2>1, <2>2, SelFreeRoom
<1>9. ASSUME NEW h \in Handle, NEW bytes \in Sizes, ReAllocShrink(h, bytes)
      PROVE  /\ arena' \in [Address -> Byte]
             /\ \A i \in Held' : gmem'[i].size <= sel_tab'[i].count * SLOT
  <2>1. /\ Named(h) \in Held /\ sel_tab' = sel_tab /\ arena' = arena
        /\ Request(bytes) <= gmem[Named(h)].size
        /\ gmem' = [gmem EXCEPT ![Named(h)].size = Request(bytes)]
    BY <1>9, NamedIsIndex DEF ReAllocShrink, Valid, Held, selvars
  <2>2. Request(bytes) \in Nat
    BY <1>3
  <2>3. \A i \in Index : sel_tab[i].count * SLOT \in Nat
    BY <1>2, SlotAssumption, CountModAssumption DEF TabType, SelDesc
  <2>4. \A i \in Held' : /\ i \in Held
                         /\ i # Named(h) => gmem'[i] = gmem[i]
                         /\ i = Named(h) => gmem'[i].size = Request(bytes)
    BY <1>2, <2>1 DEF Held, GmemType
  <2>5. \A i \in Held : i \in Index /\ gmem[i].size \in Nat
    BY <1>2 DEF Held, GmemType
  <2> DEFINE room(i) == sel_tab[i].count * SLOT
  <2>6. \A i \in Held : room(i) \in Nat /\ gmem[i].size <= room(i)
    BY <1>2, <2>3, <2>5
  <2>7. sel_tab'[Named(h)] = sel_tab[Named(h)]
    BY <2>1
  <2> HIDE DEF room
  <2>8. Request(bytes) <= room(Named(h))
    BY <2>1, <2>2, <2>5, <2>6
  <2>9. \A i \in Held' : gmem'[i].size <= room(i)
    BY <2>4, <2>6, <2>8
  <2> QED
    BY <2>1, <2>9, <1>2 DEF room
<1>11. ASSUME NEW h \in Handle, GlobalLock(h) \/ GlobalUnlock(h)
              \/ \E m \in Moveable : ReAllocModify(h, m)
       PROVE  /\ arena' \in [Address -> Byte]
              /\ \A i \in Held' : gmem'[i].size <= sel_tab'[i].count * SLOT
  <2>1. /\ Named(h) \in Index
        /\ sel_tab' = sel_tab /\ arena' = arena
        /\ \/ gmem' = [gmem EXCEPT ![Named(h)].lock = @ + 1]
           \/ gmem' = [gmem EXCEPT ![Named(h)].lock = @ - 1]
           \/ \E m \in Moveable : gmem' = [gmem EXCEPT ![Named(h)].moveable = m]
    BY <1>11, NamedIsIndex DEF GlobalLock, GlobalUnlock, ReAllocModify, selvars
  <2>2. \A i \in Index : /\ gmem'[i].size = gmem[i].size
                         /\ gmem'[i].used = gmem[i].used
    BY <1>2, <2>1 DEF GmemType
  <2>3. Held' = Held
    BY <2>2 DEF Held
  <2> QED
    BY <1>2, <2>1, <2>2, <2>3 DEF Held
<1>12. ASSUME NEW i \in Index, NEW off \in 0 .. SLOT - 1, NEW v \in Byte,
              GuestWrite(i, off, v)
       PROVE  /\ arena' \in [Address -> Byte]
              /\ \A k \in Held' : gmem'[k].size <= sel_tab'[k].count * SLOT
  BY <1>2, <1>12 DEF GuestWrite, Held
<1>13. ASSUME UNCHANGED vars
       PROVE  /\ arena' \in [Address -> Byte]
              /\ \A k \in Held' : gmem'[k].size <= sel_tab'[k].count * SLOT
  BY <1>2, <1>13 DEF vars, selvars, Held
<1>14. ASSUME NEW bytes \in Sizes, NEW m \in Moveable, GlobalAlloc(bytes, m)
       PROVE  /\ arena' \in [Address -> Byte]
              /\ \A k \in Held' : gmem'[k].size <= sel_tab'[k].count * SLOT
  BY <1>6, <1>13, <1>14 DEF GlobalAlloc
<1>15. ASSUME NEW h \in Handle,
              StaleHandle(h) \/ \E bytes \in Sizes : ReAllocFail(h, bytes)
       PROVE  /\ arena' \in [Address -> Byte]
              /\ \A k \in Held' : gmem'[k].size <= sel_tab'[k].count * SLOT
  BY <1>13, <1>15 DEF StaleHandle, ReAllocFail
<1> QED
  BY <1>5, <1>7, <1>8, <1>9, <1>11, <1>12, <1>13, <1>14, <1>15 DEF Next

(* Room holds of every behaviour whose requests do not wrap.               *)
THEOREM HeapRoom == CountFits /\ NoWrap => (Spec => []RoomInv)
<1> SUFFICES ASSUME CountFits, NoWrap PROVE Spec => []RoomInv
  OBVIOUS
<1>1. Init => RoomInv
  <2> SUFFICES ASSUME Init PROVE RoomInv
    OBVIOUS
  <2>1. Held = {}
    BY DEF Init, Held, NoBlock
  <2>2. BlocksCoverSize
    BY <2>1 DEF BlocksCoverSize, Held
  <2>3. ArenaTypeOK
    BY ByteAssumption DEF Init, SelInit, ArenaTypeOK
  <2> QED
    BY <2>2, <2>3, InitIInv DEF RoomInv
<1>2. RoomInv /\ [Next]_vars => RoomInv'
  BY NextRoom
<1> QED
  BY <1>1, <1>2, PTL DEF Spec

(* Type correctness, the bytes of the arena included.                      *)
THEOREM TypeCorrect == CountFits /\ NoWrap => (Spec => []TypeOK)
<1>1. RoomInv => TypeOK
  BY DEF RoomInv, IInv, TypeOK
<1> QED
  BY <1>1, HeapRoom, PTL

(* A block always has the slots its owner was told it has bytes in.        *)
THEOREM BlocksAlwaysCoverSize == CountFits /\ NoWrap => (Spec => []BlocksCoverSize)
<1>1. RoomInv => BlocksCoverSize
  BY DEF RoomInv
<1> QED
  BY <1>1, HeapRoom, PTL

(* The two tables agree on every block, in an arena of any length, when a  *)
(* block's length fits its count and no request wraps (sel.c, heap.c).     *)
THEOREM TableAlwaysSound == CountFits /\ NoWrap => (Spec => []TableSound)
<1>1. LiveMirrorsKind /\ BlocksTile /\ OneOwner /\ BlocksCoverSize => TableSound
  BY DEF TableSound
<1> QED
  BY <1>1, LiveAlwaysMirrors, BlocksAlwaysTile, AlwaysOneOwner, BlocksAlwaysCoverSize, PTL

-----------------------------------------------------------------------------
(* The global heap as a program sees it: BlockStore, of the blocks of gmem  *)
(* and their bytes.                                                         *)

Extent(i) == i * SLOT .. i * SLOT + gmem[i].size - 1
Slots(p, n) == p * SLOT .. (p + n) * SLOT - 1
Shown == [i \in Held |-> Contents(i)]

(* A run of slots that ends before another begins, in bytes.               *)
LEMMA SlotsBefore ==
  ASSUME NEW p \in Nat, NEW c \in Nat, NEW q \in Nat, p + c <= q
  PROVE  /\ p * SLOT \in Nat /\ c * SLOT \in Nat /\ q * SLOT \in Nat
         /\ (p + c) * SLOT = p * SLOT + c * SLOT
         /\ p * SLOT + c * SLOT <= q * SLOT
<1>1. SLOT \in Nat
  BY SlotAssumption
<1>2. /\ p * SLOT \in Nat /\ c * SLOT \in Nat /\ q * SLOT \in Nat
      /\ (p + c) * SLOT = p * SLOT + c * SLOT
  BY <1>1
<1>3. PICK d \in Nat : q = p + c + d
  <2>1. q - (p + c) \in Nat /\ q = p + c + (q - (p + c))
    OBVIOUS
  <2> QED
    BY <2>1
<1>4. d * SLOT \in Nat /\ q * SLOT = p * SLOT + c * SLOT + d * SLOT
  BY <1>1, <1>3
<1> QED
  BY <1>2, <1>4

(* What is known of a block in use: where it is, and that it fits there.   *)
LEMMA HeldFacts ==
  ASSUME RoomInv, NEW i \in Held
  PROVE  /\ i \in Index /\ i \in Nat /\ i \in Heads(sel_tab)
         /\ sel_tab[i].count \in Nat /\ i + sel_tab[i].count <= SEL_LIMIT
         /\ gmem[i].size \in Nat /\ gmem[i].size <= sel_tab[i].count * SLOT
         /\ Extent(i) \subseteq Slots(i, sel_tab[i].count)
         /\ Extent(i) \subseteq Address
         /\ i * SLOT \in Nat
<1>1. i \in Index /\ i \in Nat /\ i \in Heads(sel_tab)
  BY DEF Held, RoomInv, IInv, OneOwner, Index
<1>2. sel_tab[i].count \in Nat /\ i + sel_tab[i].count <= SEL_LIMIT
  BY <1>1, CountModAssumption
  DEF RoomInv, IInv, TableTypeOK, SelTypeOK, TabType, SelDesc, BlocksTile, Tiled
<1>3. gmem[i].size \in Nat /\ gmem[i].size <= sel_tab[i].count * SLOT
  BY <1>1 DEF RoomInv, IInv, TableTypeOK, GmemType, BlocksCoverSize, Held
<1> DEFINE c == sel_tab[i].count
<1>4. SEL_LIMIT \in Nat
  BY LimitAssumption
<1> HIDE DEF c
<1>5. /\ i * SLOT \in Nat /\ c * SLOT \in Nat /\ SEL_LIMIT * SLOT \in Nat
      /\ (i + c) * SLOT = i * SLOT + c * SLOT
      /\ i * SLOT + c * SLOT <= SEL_LIMIT * SLOT
  BY <1>1, <1>2, <1>4, SlotsBefore DEF c
<1>6. gmem[i].size \in Nat /\ gmem[i].size <= c * SLOT
  BY <1>3 DEF c
<1> DEFINE a == i * SLOT
           b == c * SLOT
           t == SEL_LIMIT * SLOT
           s == gmem[i].size
<1>7. a \in Nat /\ b \in Nat /\ t \in Nat /\ a + b <= t /\ s \in Nat /\ s <= b
  BY <1>5, <1>6
<1>8. Extent(i) = a .. a + s - 1 /\ Slots(i, c) = a .. a + b - 1 /\ Address = 0 .. t - 1
  BY <1>5 DEF Extent, Slots, Address
<1> HIDE DEF a, b, t, s
<1>9. Extent(i) \subseteq Slots(i, c) /\ Extent(i) \subseteq Address
  BY <1>7, <1>8
<1> QED
  BY <1>1, <1>2, <1>3, <1>5, <1>9 DEF c

(* Runs of slots, one wholly before the other, have no byte in common.     *)
LEMMA SlotsApart ==
  ASSUME NEW p \in Nat, NEW c \in Nat, NEW q \in Nat, NEW d \in Nat,
         p + c <= q \/ q + d <= p
  PROVE  Slots(p, c) \cap Slots(q, d) = {}
<1>1. CASE p + c <= q
  <2>1. /\ p * SLOT \in Nat /\ c * SLOT \in Nat /\ q * SLOT \in Nat
        /\ (p + c) * SLOT = p * SLOT + c * SLOT
        /\ p * SLOT + c * SLOT <= q * SLOT
    BY <1>1, SlotsBefore
  <2>2. (q + d) * SLOT \in Int
    BY SlotAssumption
  <2> DEFINE x == p * SLOT  y == c * SLOT  z == q * SLOT  w == (q + d) * SLOT
  <2>3. Slots(p, c) = x .. x + y - 1 /\ Slots(q, d) = z .. w - 1
    BY <2>1 DEF Slots
  <2>4. x \in Nat /\ y \in Nat /\ z \in Nat /\ w \in Int /\ x + y <= z
    BY <2>1, <2>2
  <2> HIDE DEF x, y, z, w
  <2> QED
    BY <2>3, <2>4
<1>2. CASE q + d <= p
  <2>1. /\ q * SLOT \in Nat /\ d * SLOT \in Nat /\ p * SLOT \in Nat
        /\ (q + d) * SLOT = q * SLOT + d * SLOT
        /\ q * SLOT + d * SLOT <= p * SLOT
    BY <1>2, SlotsBefore
  <2>2. (p + c) * SLOT \in Int
    BY SlotAssumption
  <2> DEFINE x == q * SLOT  y == d * SLOT  z == p * SLOT  w == (p + c) * SLOT
  <2>3. Slots(q, d) = x .. x + y - 1 /\ Slots(p, c) = z .. w - 1
    BY <2>1 DEF Slots
  <2>4. x \in Nat /\ y \in Nat /\ z \in Nat /\ w \in Int /\ x + y <= z
    BY <2>1, <2>2
  <2> HIDE DEF x, y, z, w
  <2> QED
    BY <2>3, <2>4
<1> QED
  BY <1>1, <1>2

(* A slot is inside one block at most, and a free one inside none.         *)
LEMMA OutsideBlock ==
  ASSUME IInv, NEW i \in Heads(sel_tab), NEW s \in Index,
         sel_tab[s].kind = "FREE" \/ (sel_tab[s].head /\ s # i)
            \/ \E g \in Heads(sel_tab) \ {i} : s \in BlockAt(sel_tab, g)
  PROVE  s < i \/ i + sel_tab[i].count <= s
<1>1. i \in Nat /\ s \in Nat /\ sel_tab[i].count \in Nat
      /\ \A g \in Heads(sel_tab) : g \in Nat /\ sel_tab[g].count \in Nat
  BY CountModAssumption
  DEF IInv, TableTypeOK, SelTypeOK, TabType, SelDesc, Heads, Index
<1>2. \A g \in Heads(sel_tab) : \A k \in BlockAt(sel_tab, g) :
         sel_tab[k].kind = sel_tab[g].kind /\ (sel_tab[k].head <=> k = g)
  BY DEF IInv, BlocksTile, Tiled
<1>3. \A g \in Heads(sel_tab) : sel_tab[g].kind # "FREE" /\ sel_tab[g].head
  BY DEF Heads
<1>4. SUFFICES ASSUME s \in BlockAt(sel_tab, i) PROVE FALSE
  BY <1>1 DEF BlockAt, Run
<1>5. sel_tab[s].kind # "FREE" /\ (sel_tab[s].head <=> s = i)
  BY <1>2, <1>3, <1>4
<1>6. PICK g \in Heads(sel_tab) \ {i} : s \in BlockAt(sel_tab, g)
  BY <1>5
<1>7. CASE g <= i
  <2>1. i \in BlockAt(sel_tab, g)
    BY <1>1, <1>4, <1>6, <1>7 DEF BlockAt, Run
  <2> QED
    BY <2>1, <1>2, <1>3, <1>6
<1>8. CASE i <= g
  <2>1. g \in BlockAt(sel_tab, i)
    BY <1>1, <1>4, <1>6, <1>8 DEF BlockAt, Run
  <2> QED
    BY <2>1, <1>2, <1>3, <1>6
<1> QED
  BY <1>1, <1>6, <1>7, <1>8

(* A run of free slots lies wholly before a block or wholly behind it.     *)
LEMMA FreeRunApart ==
  ASSUME RoomInv, NEW i \in Held, NEW start, NEW n \in Nat \ {0}, FirstFit(start, n)
  PROVE  /\ start \in Nat
         /\ Slots(start, n) \cap Slots(i, sel_tab[i].count) = {}
         /\ Slots(start, n) \cap Extent(i) = {}
<1>1. /\ start \in Index /\ start \in Nat
      /\ start + n <= SEL_LIMIT
      /\ \A k \in Run(start, n) : sel_tab[k].kind = "FREE"
  BY FirstFitFits DEF RoomInv, IInv, Index
<1>2. /\ i \in Index /\ i \in Nat /\ i \in Heads(sel_tab) /\ sel_tab[i].count \in Nat
      /\ Extent(i) \subseteq Slots(i, sel_tab[i].count)
  BY HeldFacts
<1>3. start < i \/ i + sel_tab[i].count <= start
  <2>1. start \in Run(start, n)
    BY <1>1 DEF Run
  <2> QED
    BY <1>1, <1>2, <2>1, OutsideBlock DEF RoomInv
<1>4. i \notin Run(start, n)
  BY <1>1, <1>2 DEF Heads
<1>5. start + n <= i \/ i + sel_tab[i].count <= start
  BY <1>1, <1>2, <1>3, <1>4 DEF Run
<1> QED
  BY <1>1, <1>2, <1>5, SlotsApart

(* Two blocks in use have no byte in common.                               *)
LEMMA ExtentsApart ==
  ASSUME RoomInv, NEW i \in Held, NEW h \in Held, i # h
  PROVE  Extent(i) \cap Extent(h) = {}
<1>1. /\ i \in Index /\ i \in Nat /\ i \in Heads(sel_tab) /\ sel_tab[i].count \in Nat
      /\ Extent(i) \subseteq Slots(i, sel_tab[i].count)
      /\ h \in Index /\ h \in Nat /\ h \in Heads(sel_tab) /\ sel_tab[h].count \in Nat
      /\ Extent(h) \subseteq Slots(h, sel_tab[h].count)
  BY HeldFacts
<1>2. i < h \/ h + sel_tab[h].count <= i
  BY <1>1, OutsideBlock DEF RoomInv, Heads
<1>3. h < i \/ i + sel_tab[i].count <= h
  BY <1>1, OutsideBlock DEF RoomInv, Heads
<1>4. i + sel_tab[i].count <= h \/ h + sel_tab[h].count <= i
  BY <1>1, <1>2, <1>3
<1> QED
  BY <1>1, <1>4, SlotsApart

(* A block reads as it did if it is as long and none of its bytes changed. *)
LEMMA SameContents ==
  ASSUME RoomInv, NEW i \in Held, gmem'[i].size = gmem[i].size,
         \A a \in Extent(i) : arena'[a] = arena[a]
  PROVE  Contents(i)' = Contents(i)
<1>1. gmem[i].size \in Nat /\ i * SLOT \in Nat
  BY HeldFacts
<1>2. \A k \in 0 .. gmem[i].size - 1 : i * SLOT + k \in Extent(i)
  <2> DEFINE a == i * SLOT
             s == gmem[i].size
  <2>1. a \in Nat /\ s \in Nat /\ Extent(i) = a .. a + s - 1
    BY <1>1 DEF Extent
  <2> HIDE DEF a, s
  <2>2. \A k \in 0 .. s - 1 : a + k \in Extent(i)
    BY <2>1
  <2> QED
    BY <2>2 DEF a, s
<1> QED
  BY <1>2 DEF Contents

(* What a program sees of the heap after a step that leaves it the same    *)
(* blocks, as long as they were.                                           *)
LEMMA NothingSeen ==
  ASSUME RoomInv, Held' = Held,
         \A i \in Held : /\ gmem'[i].size = gmem[i].size
                         /\ \A a \in Extent(i) : arena'[a] = arena[a]
  PROVE  UNCHANGED Shown
<1>1. \A i \in Held : Contents(i)' = Contents(i)
  BY SameContents
<1> QED
  BY <1>1 DEF Shown

(* A segment's slots are cleared, and they are in no block.                *)
LEMMA SegmentUnseen ==
  ASSUME RoomInv, NEW size \in Sizes, NEW kind \in Kinds,
         LoadSegment(Request(size), kind)
  PROVE  UNCHANGED Shown
<1>1. PICK start \in Index : SelAlloc(start, Request(size), kind)
  BY DEF LoadSegment
<1> DEFINE n == SlotCount(Request(size))
<1>2. n \in Nat \ {0}
  BY RequestType, SlotCountPositive
<1>3. FirstFit(start, n) /\ arena' = Zeroed(arena, start, n)
  BY <1>1 DEF SelAlloc
<1>4. gmem' = gmem /\ Held' = Held
  BY DEF LoadSegment, Held
<1> HIDE DEF n
<1>5. arena \in [Address -> Byte]
  BY DEF RoomInv, ArenaTypeOK
<1>6. ASSUME NEW i \in Held, NEW a \in Extent(i)
      PROVE  arena'[a] = arena[a]
  <2>1. a \in Address /\ a \notin Slots(start, n)
    BY <1>2, <1>3, <1>6, FreeRunApart, HeldFacts
  <2> QED
    BY <2>1, <1>3, <1>5 DEF Zeroed, Slots
<1> QED
  BY <1>4, <1>6, NothingSeen

(* A new block reads as zero, and the others as they did.                  *)
LEMMA AllocIsAlloc ==
  ASSUME CountFits, NoWrap, RoomInv, RoomInv', NEW bytes \in Sizes, NEW m \in Moveable,
         NEW start \in Index, SelAlloc(start, Request(bytes), "DATA"),
         gmem' = [gmem EXCEPT ![start] = NewBlock(Request(bytes), m)]
  PROVE  Store!Alloc(start, Request(bytes))
<1> DEFINE s == Request(bytes)
           n == SlotCount(s)
<1>1. s \in Nat /\ s + SLOT - 1 < SIZE_MOD /\ n \in Nat \ {0}
  BY RequestType, SlotCountPositive DEF NoWrap
<1>2. FirstFit(start, n) /\ arena' = Zeroed(arena, start, n)
  BY DEF SelAlloc
<1>3. /\ arena \in [Address -> Byte] /\ gmem \in [Index -> GmemType]
  BY DEF RoomInv, ArenaTypeOK, IInv, TableTypeOK
<1>4. \A i \in Held : i # start
  <2>1. "DATA" \in Kinds
    BY DEF Kinds
  <2> QED
    BY <1>1, <1>2, <2>1, SelAllocRoom
<1>5. Held' = Held \cup {start} /\ start \notin Held
  BY <1>3, <1>4 DEF Held, NewBlock
<1>6. \A i \in Held : gmem'[i] = gmem[i]
  BY <1>3, <1>4 DEF Held
<1>7. gmem'[start].size = s
  BY <1>3 DEF NewBlock
<1> HIDE DEF s, n
<1>8. ASSUME NEW i \in Held
      PROVE  Contents(i)' = Contents(i)
  <2>1. ASSUME NEW a \in Extent(i)
        PROVE  arena'[a] = arena[a]
    <3>1. a \in Address /\ a \notin Slots(start, n)
      BY <1>1, <1>2, <2>1, FreeRunApart, HeldFacts
    <3> QED
      BY <3>1, <1>2, <1>3 DEF Zeroed, Slots
  <2> QED
    BY <1>6, <2>1, SameContents
<1>9. Contents(start)' = Store!Zeros(s)
  <2>1. start \in Held'
    BY <1>5
  <2>2. s <= n * SLOT
    BY <1>1, SlotCountCovers DEF n
  <2>3. start \in Nat /\ start + n <= SEL_LIMIT
    BY <1>2, FirstFitFits DEF RoomInv, IInv, Index
  <2>4. SEL_LIMIT \in Nat
    BY LimitAssumption
  <2>5. /\ start * SLOT \in Nat /\ n * SLOT \in Nat /\ SEL_LIMIT * SLOT \in Nat
        /\ (start + n) * SLOT = start * SLOT + n * SLOT
        /\ start * SLOT + n * SLOT <= SEL_LIMIT * SLOT
    BY <1>1, <2>3, <2>4, SlotsBefore
  <2> DEFINE a == start * SLOT
             b == n * SLOT
             t == SEL_LIMIT * SLOT
  <2>6. /\ a \in Nat /\ b \in Nat /\ t \in Nat /\ a + b <= t /\ s <= b
        /\ Address = 0 .. t - 1
        /\ a .. (start + n) * SLOT - 1 = a .. a + b - 1
    BY <2>2, <2>5 DEF Address
  <2>7. \A x \in Address : x \in a .. a + b - 1 => arena'[x] = 0
    BY <1>2, <1>3, <2>6 DEF Zeroed
  <2> HIDE DEF a, b, t
  <2>8. \A k \in 0 .. s - 1 : arena'[a + k] = 0
    BY <1>1, <2>6, <2>7
  <2> QED
    BY <1>7, <2>8 DEF Contents, Store!Zeros, a
<1>10. [x \in Held |-> Contents(x)]' =
         [x \in Held \cup {start} |-> IF x = start THEN Store!Zeros(s)
                                     ELSE [y \in Held |-> Contents(y)][x]]
  <2>1. \A x \in Held \cup {start} :
           Contents(x)' = IF x = start THEN Store!Zeros(s)
                          ELSE [y \in Held |-> Contents(y)][x]
    BY <1>5, <1>8, <1>9
  <2> QED
    BY <1>5, <2>1
<1> QED
  BY <1>5, <1>10 DEF Store!Alloc, Store!Live, s

(* A block given back is gone, and the others read as they did.            *)
LEMMA FreeIsFree ==
  ASSUME RoomInv, NEW h \in Handle, GlobalFree(h)
  PROVE  Named(h) \in Held /\ Store!Free(Named(h))
<1>1. /\ Named(h) \in Held /\ arena' = arena
      /\ gmem' = [gmem EXCEPT ![Named(h)] = NoBlock]
  BY NamedIsIndex DEF GlobalFree, Valid, Held
<1>2. gmem \in [Index -> GmemType]
  BY DEF RoomInv, IInv, TableTypeOK
<1>3. Held' = Held \ {Named(h)}
  BY <1>1, <1>2 DEF Held, NoBlock
<1>4. \A i \in Held' : i \in Held /\ gmem'[i] = gmem[i]
  BY <1>1, <1>2, <1>3
<1>5. \A i \in Held' : Contents(i)' = Contents(i)
  BY <1>1, <1>4, SameContents
<1> QED
  BY <1>1, <1>3, <1>4, <1>5 DEF Store!Free, Store!Live

(* A block made shorter keeps its first bytes.                             *)
LEMMA ShrinkIsResize ==
  ASSUME RoomInv, NEW h \in Handle, NEW bytes \in Sizes, ReAllocShrink(h, bytes)
  PROVE  Named(h) \in Held /\ Store!Resize(Named(h), Named(h), Request(bytes))
<1> DEFINE i == Named(h)
           s == Request(bytes)
<1>1. /\ i \in Held /\ arena' = arena /\ s \in Nat /\ s <= gmem[i].size
      /\ gmem' = [gmem EXCEPT ![i].size = s]
  BY NamedIsIndex, RequestType DEF ReAllocShrink, Valid, Held, selvars
<1>2. gmem \in [Index -> GmemType] /\ gmem[i].size \in Nat
  BY <1>1, HeldFacts DEF RoomInv, IInv, TableTypeOK
<1> HIDE DEF i, s
<1>3. \A x \in Index : gmem'[x].used = gmem[x].used
  BY <1>1, <1>2 DEF GmemType
<1>4. Held' = Held
  BY <1>3 DEF Held
<1>5. gmem'[i].size = s
  BY <1>1, <1>2 DEF Held, GmemType
<1>6. \A x \in Held : x # i => gmem'[x] = gmem[x]
  BY <1>1, <1>2 DEF Held
<1>7. \A x \in Held : x # i => Contents(x)' = Contents(x)
  BY <1>1, <1>6, SameContents
<1>8. Contents(i)' = Store!Resized(Contents(i), s)
  BY <1>1, <1>2, <1>5 DEF Contents, Store!Resized
<1>9. [x \in Held |-> Contents(x)]' =
        [x \in (Held \ {i}) \cup {i} |->
           IF x = i THEN Store!Resized([y \in Held |-> Contents(y)][i], s)
           ELSE [y \in Held |-> Contents(y)][x]]
  <2>1. \A x \in Held : Contents(x)' =
           IF x = i THEN Store!Resized([y \in Held |-> Contents(y)][i], s)
           ELSE [y \in Held |-> Contents(y)][x]
    BY <1>1, <1>7, <1>8
  <2>2. (Held \ {i}) \cup {i} = Held
    BY <1>1
  <2> QED
    BY <1>4, <2>1, <2>2
<1> QED
  BY <1>1, <1>9 DEF Store!Resize, Store!Live, i, s

(* A block that moved keeps its bytes and is followed by zeros: they were  *)
(* copied before its old slots were given back.                            *)
LEMMA MoveIsResize ==
  ASSUME CountFits, NoWrap, RoomInv, NEW h \in Handle, NEW bytes \in Sizes,
         NEW m \in Moveable, ReAllocMove(h, bytes, m)
  PROVE  \E start \in Index : /\ Named(h) \in Held
                              /\ Store!Resize(Named(h), start, Request(bytes))
<1> DEFINE i == Named(h)
           n == SlotCount(bytes)
<1>1. i \in Index /\ i \in Held /\ bytes \in Nat /\ bytes > gmem[i].size
  BY NamedIsIndex, RequestType DEF ReAllocMove, Valid, Held
<1>2. PICK start \in Index :
        /\ FirstFit(start, n)
        /\ arena' = Copied(Zeroed(arena, start, n), i, start, gmem[i].size)
        /\ gmem' = [gmem EXCEPT ![start] = NewBlock(bytes, m), ![i] = NoBlock]
  BY DEF ReAllocMove
<1>3. /\ arena \in [Address -> Byte] /\ gmem \in [Index -> GmemType]
      /\ gmem[i].size \in Nat
  BY <1>1, HeldFacts DEF RoomInv, ArenaTypeOK, IInv, TableTypeOK
<1>4. Request(bytes) = bytes /\ bytes + SLOT - 1 < SIZE_MOD /\ n \in Nat \ {0}
  BY <1>1, <1>3, SlotCountPositive DEF Request, NoWrap
<1>5. \A x \in Held : x # start
  <2>1. "DATA" \in Kinds
    BY DEF Kinds
  <2> QED
    BY <1>1, <1>2, <1>4, <2>1, SelAllocRoom
<1> HIDE DEF i
<1>6. /\ gmem'[start].size = bytes
      /\ \A x \in Held \ {i} : gmem'[x] = gmem[x]
      /\ Held' = (Held \ {i}) \cup {start}
  <2>1. /\ gmem'[i].used = FALSE
        /\ gmem'[start].used = TRUE /\ gmem'[start].size = bytes
        /\ \A x \in Index \ {i, start} : gmem'[x] = gmem[x]
    BY <1>1, <1>2, <1>3, <1>5 DEF NewBlock, NoBlock
  <2> QED
    BY <2>1, <1>1, <1>5 DEF Held
<1>7. /\ bytes <= n * SLOT /\ n * SLOT \in Nat
      /\ start \in Nat /\ start * SLOT \in Nat
      /\ (start + n) * SLOT = start * SLOT + n * SLOT
      /\ start * SLOT + n * SLOT <= SEL_LIMIT * SLOT
      /\ SEL_LIMIT * SLOT \in Nat
  <2>1. start \in Nat /\ start + n <= SEL_LIMIT
    BY <1>2, FirstFitFits DEF RoomInv, IInv, Index
  <2>2. SEL_LIMIT \in Nat /\ n \in Nat
    BY <1>4, LimitAssumption
  <2> QED
    BY <1>1, <1>4, <2>1, <2>2, SlotCountCovers, SlotsBefore
<1> DEFINE a == start * SLOT
           b == n * SLOT
           t == SEL_LIMIT * SLOT
           old == gmem[i].size
           from == i * SLOT
<1>8. /\ a \in Nat /\ b \in Nat /\ t \in Nat /\ a + b <= t /\ bytes <= b
      /\ old \in Nat /\ old < bytes /\ Address = 0 .. t - 1
      /\ Slots(start, n) = a .. a + b - 1
      /\ from \in Nat /\ Extent(i) = from .. from + old - 1
  BY <1>1, <1>3, <1>7, HeldFacts DEF Address, Slots, Extent
<1>9. \A x \in Address :
         Zeroed(arena, start, n)[x] = IF x \in a .. a + b - 1 THEN 0 ELSE arena[x]
  <2>1. a .. a + b - 1 = start * SLOT .. (start + n) * SLOT - 1
    BY <1>7
  <2> QED
    BY <1>3, <2>1 DEF Zeroed
<1>10. \A x \in Address :
         arena'[x] = IF x \in a .. a + old - 1 THEN Zeroed(arena, start, n)[from + (x - a)]
                     ELSE Zeroed(arena, start, n)[x]
  <2>1. DOMAIN Zeroed(arena, start, n) = Address
    BY <1>3 DEF Zeroed
  <2> QED
    BY <1>2, <2>1 DEF Copied
<1>11. Slots(start, n) \cap Extent(i) = {} /\ Extent(i) \subseteq Address
  BY <1>1, <1>2, <1>4, FreeRunApart, HeldFacts
<1> HIDE DEF a, b, t, old, from, n
<1>12. ASSUME NEW x \in Held, x # i
       PROVE  Contents(x)' = Contents(x)
  <2>1. ASSUME NEW y \in Extent(x)
        PROVE  arena'[y] = arena[y]
    <3>1. y \in Address /\ y \notin Slots(start, n)
      BY <1>2, <1>4, <2>1, <1>12, FreeRunApart, HeldFacts DEF n
    <3>2. y \notin a .. a + b - 1 /\ y \notin a .. a + old - 1
      <4>1. \A z \in a .. a + old - 1 : z \in a .. a + b - 1
        BY <1>1, <1>8
      <4>2. y \notin a .. a + b - 1
        BY <3>1, <1>8
      <4> QED
        BY <4>1, <4>2
    <3> QED
      BY <3>1, <3>2, <1>9, <1>10
  <2> QED
    BY <1>6, <1>12, <2>1, SameContents
<1>13. ASSUME NEW k \in 0 .. bytes - 1
       PROVE  arena'[a + k] = IF k \in 0 .. old - 1 THEN arena[from + k] ELSE 0
  <2>1. a + k \in Address /\ a + k \in a .. a + b - 1
    BY <1>1, <1>8
  <2>2. CASE k \in 0 .. old - 1
    <3>1. from + k \in Extent(i) /\ from + ((a + k) - a) = from + k
      BY <1>8, <2>2
    <3>2. from + k \in Address /\ from + k \notin a .. a + b - 1
      BY <3>1, <1>8, <1>11
    <3>3. a + k \in a .. a + old - 1
      BY <1>8, <2>2
    <3> QED
      BY <2>1, <2>2, <3>1, <3>2, <3>3, <1>9, <1>10
  <2>3. CASE k \notin 0 .. old - 1
    <3>1. a + k \notin a .. a + old - 1
      BY <1>8, <2>3
    <3> QED
      BY <2>1, <2>3, <3>1, <1>9, <1>10
  <2> QED
    BY <2>2, <2>3
<1>14. Contents(start)' = Store!Resized(Contents(i), bytes)
  BY <1>6, <1>13 DEF Contents, Store!Resized, a, old, from
<1>15. [x \in Held |-> Contents(x)]' =
         [x \in (Held \ {i}) \cup {start} |->
            IF x = start THEN Store!Resized([y \in Held |-> Contents(y)][i], bytes)
            ELSE [y \in Held |-> Contents(y)][x]]
  <2>1. \A x \in (Held \ {i}) \cup {start} : Contents(x)' =
           IF x = start THEN Store!Resized([y \in Held |-> Contents(y)][i], bytes)
           ELSE [y \in Held |-> Contents(y)][x]
    BY <1>1, <1>5, <1>12, <1>14
  <2> QED
    BY <1>6, <2>1
<1>16. Store!Resize(i, start, bytes)
  BY <1>1, <1>5, <1>15 DEF Store!Resize, Store!Live
<1> QED
  BY <1>1, <1>4, <1>16 DEF i

(* A store changes one byte of the block it goes to, if it goes to one.    *)
LEMMA WriteIsWrite ==
  ASSUME RoomInv, NEW s \in Index, NEW off \in 0 .. SLOT - 1, NEW v \in Byte,
         GuestWrite(s, off, v)
  PROVE  \/ UNCHANGED Shown
         \/ \E g \in Held : \E k \in DOMAIN Contents(g) : Store!Write(g, k, v)
<1> DEFINE w == IF sel_live[s] THEN s * SLOT + off ELSE off
<1>1. arena' = [arena EXCEPT ![w] = v] /\ gmem' = gmem /\ Held' = Held
  BY DEF GuestWrite, Held
<1>2. arena \in [Address -> Byte]
  BY DEF RoomInv, ArenaTypeOK
<1> HIDE DEF w
<1>3. ASSUME \A i \in Held : w \notin Extent(i)
      PROVE  UNCHANGED Shown
  <2>1. \A i \in Held : \A a \in Extent(i) : arena'[a] = arena[a]
    BY <1>1, <1>2, <1>3, HeldFacts
  <2> QED
    BY <1>1, <2>1, NothingSeen
<1>4. ASSUME NEW g \in Held, w \in Extent(g)
      PROVE  \E k \in DOMAIN Contents(g) : Store!Write(g, k, v)
  <2> DEFINE a == g * SLOT
             k == w - a
             z == gmem[g].size
  <2>1. a \in Nat /\ z \in Nat /\ Extent(g) = a .. a + z - 1 /\ w \in Address
    BY <1>4, HeldFacts DEF Extent
  <2> HIDE DEF a, z
  <2>2. k \in 0 .. z - 1 /\ w = a + k
    BY <1>4, <2>1
  <2>3. DOMAIN Contents(g) = 0 .. z - 1
    BY DEF Contents, z
  <2>4. \A i \in Held : i # g => Contents(i)' = Contents(i)
    <3> SUFFICES ASSUME NEW i \in Held, i # g PROVE Contents(i)' = Contents(i)
      OBVIOUS
    <3>1. \A y \in Extent(i) : y \in Address /\ y # w
      BY <1>4, ExtentsApart, HeldFacts
    <3>2. \A y \in Extent(i) : arena'[y] = arena[y]
      BY <1>1, <1>2, <3>1
    <3> QED
      BY <1>1, <3>2, SameContents
  <2>5. Contents(g)' = [Contents(g) EXCEPT ![k] = v]
    <3>1. \A x \in 0 .. z - 1 : a + x \in Address
      <4>1. \A x \in 0 .. z - 1 : a + x \in Extent(g)
        BY <2>1
      <4> QED
        BY <4>1, HeldFacts
    <3>2. \A x \in 0 .. z - 1 : arena'[a + x] = IF x = k THEN v ELSE arena[a + x]
      BY <1>1, <1>2, <2>1, <2>2, <3>1
    <3>3. Contents(g)' = [x \in 0 .. z - 1 |-> arena'[a + x]]
      BY <1>1 DEF Contents, a, z
    <3>4. Contents(g) = [x \in 0 .. z - 1 |-> arena[a + x]]
      BY DEF Contents, a, z
    <3> HIDE DEF k
    <3> QED
      BY <2>2, <3>2, <3>3, <3>4
  <2>6. Shown' = [Shown EXCEPT ![g][k] = v]
    <3> HIDE DEF k
    <3> QED
      BY <1>1, <2>4, <2>5 DEF Shown
  <2>7. Store!Write(g, k, v)
    <3> HIDE DEF k
    <3> QED
      BY <1>4, <2>2, <2>3, <2>6 DEF Store!Write, Store!Live, Shown
  <2> QED
    BY <2>2, <2>3, <2>7
<1> QED
  BY <1>3, <1>4

(* Every call is one step of BlockStore, or none that a program sees.      *)
LEMMA StepIsStore ==
  ASSUME CountFits, NoWrap, RoomInv, RoomInv', [Next]_vars
  PROVE  [Store!Next]_Shown
<1> DEFINE Sz == {Request(s) : s \in Sizes}
<1>0. /\ \A b \in Index, c \in Index, n \in Sz : Store!Resize(b, c, n) => Store!Next
      /\ \A b \in Index, n \in Sz : Store!Alloc(b, n) => Store!Next
      /\ \A b \in Index : Store!Free(b) => Store!Next
      /\ \A b \in Held : \A k \in DOMAIN Contents(b), v \in Byte : Store!Write(b, k, v) => Store!Next
  BY DEF Store!Next, Store!Live
<1>u. UNCHANGED vars => UNCHANGED Shown
  BY DEF vars, selvars, Shown, Held, Contents
<1>h. Held \subseteq Index
  BY DEF Held
<1>1. ASSUME NEW size \in Sizes, NEW kind \in Kinds,
             LoadSegment(Request(size), kind)
      PROVE  UNCHANGED Shown
  BY <1>1, SegmentUnseen
<1>2. ASSUME NEW bytes \in Sizes, NEW m \in Moveable, GlobalAlloc(bytes, m)
      PROVE  Store!Next \/ UNCHANGED Shown
  <2>1. CASE UNCHANGED vars
    BY <2>1, <1>u
  <2>2. ASSUME NEW start \in Index, SelAlloc(start, Request(bytes), "DATA"),
               gmem' = [gmem EXCEPT ![start] = NewBlock(Request(bytes), m)]
        PROVE  Store!Next
    BY <1>0, <2>2, AllocIsAlloc
  <2> QED
    BY <1>2, <2>1, <2>2 DEF GlobalAlloc
<1>3. ASSUME NEW h \in Handle, NEW bytes \in Sizes, ReAllocShrink(h, bytes)
      PROVE  Store!Next
  BY <1>0, <1>h, <1>3, ShrinkIsResize
<1>4. ASSUME NEW h \in Handle, NEW bytes \in Sizes, NEW m \in Moveable,
             ReAllocMove(h, bytes, m)
      PROVE  Store!Next
  BY <1>0, <1>h, <1>4, MoveIsResize
<1>5. ASSUME NEW h \in Handle, GlobalFree(h)
      PROVE  Store!Next
  BY <1>0, <1>h, <1>5, FreeIsFree
<1>6. ASSUME NEW h \in Handle, GlobalLock(h) \/ GlobalUnlock(h)
              \/ \E m \in Moveable : ReAllocModify(h, m)
      PROVE  UNCHANGED Shown
  <2>1. /\ Named(h) \in Index /\ arena' = arena
        /\ \/ gmem' = [gmem EXCEPT ![Named(h)].lock = @ + 1]
           \/ gmem' = [gmem EXCEPT ![Named(h)].lock = @ - 1]
           \/ \E m \in Moveable : gmem' = [gmem EXCEPT ![Named(h)].moveable = m]
    BY <1>6, NamedIsIndex DEF GlobalLock, GlobalUnlock, ReAllocModify, selvars
  <2>2. \A i \in Index : /\ gmem'[i].size = gmem[i].size
                         /\ gmem'[i].used = gmem[i].used
    BY <2>1 DEF GmemType, RoomInv, IInv, TableTypeOK
  <2>3. Held' = Held
    BY <2>2 DEF Held
  <2> QED
    BY <2>1, <2>2, <2>3, <1>h, NothingSeen
<1>7. ASSUME NEW i \in Index, NEW off \in 0 .. SLOT - 1, NEW v \in Byte,
             GuestWrite(i, off, v)
      PROVE  Store!Next \/ UNCHANGED Shown
  BY <1>0, <1>7, WriteIsWrite
<1>8. ASSUME NEW h \in Handle,
             StaleHandle(h) \/ \E bytes \in Sizes : ReAllocFail(h, bytes)
      PROVE  UNCHANGED Shown
  BY <1>8, <1>u DEF StaleHandle, ReAllocFail
<1> QED
  BY <1>1, <1>2, <1>3, <1>4, <1>5, <1>6, <1>7, <1>8, <1>u DEF Next

(* The heap keeps what BlockStore promises of it, whatever is allocated,   *)
(* moved, shrunk and given back around a block: its bytes change by a      *)
(* store through it and by nothing else (heap.c, sel.c).                   *)
THEOREM HeapIsAStore == CountFits /\ NoWrap => (Spec => StoreSpec)
<1> SUFFICES ASSUME CountFits, NoWrap PROVE Spec => StoreSpec
  OBVIOUS
<1>1. Init => Store!Init
  <2> SUFFICES ASSUME Init PROVE Store!Init
    OBVIOUS
  <2>1. Held = {}
    BY DEF Init, Held, NoBlock
  <2> QED
    BY <2>1 DEF Store!Init
<1>2. RoomInv /\ RoomInv' /\ [Next]_vars => [Store!Next]_Shown
  BY StepIsStore
<1>3. Spec => []RoomInv
  BY HeapRoom
<1> QED
  BY <1>1, <1>2, <1>3, PTL DEF Spec, StoreSpec, Store!Spec, Shown

-----------------------------------------------------------------------------
(* The local heap: chains that tile it.                                     *)

HeapBlock == [size : 2 .. END - BASE, used : BOOLEAN]

Whole(c) ==
  /\ DOMAIN c \subseteq Offset
  /\ \A off \in DOMAIN c : c[off] \in HeapBlock
  /\ Tiles(c)

UsedIn(c) == DOMAIN c \ Free(c)

\* No request is so close to 64 KB that it wraps with its header.
NoLocalWrap == \A words \in Requests : words + 1 < SEG

LEMMA PlaceFacts ==
  /\ BASE \in Nat \ {0} /\ END \in Nat /\ SEG \in Nat /\ BASE + 2 <= END /\ END <= SEG
  /\ Offset \subseteq Nat /\ Offset \subseteq Word
  /\ \A x \in Offset : x + 1 <= END
BY PlaceAssumption DEF Offset, Word

\* One block after another.
LEMMA Apart ==
  ASSUME NEW c, Whole(c), NEW s \in DOMAIN c
  PROVE  /\ s \in Nat /\ c[s].size \in Nat /\ c[s].size >= 2 /\ c[s].used \in BOOLEAN
         /\ BASE <= s /\ s < END
         /\ s + c[s].size \in DOMAIN c \cup {END} /\ s + c[s].size <= END
         /\ \A t \in DOMAIN c : s < t => s + c[s].size <= t
<1>1. s \in Offset /\ c[s] \in HeapBlock /\ DOMAIN c \subseteq Offset
  BY DEF Whole
<1>2. s \in Nat /\ BASE <= s /\ s < END
  BY <1>1, PlaceFacts DEF Offset
<1>3. c[s].size \in Nat /\ c[s].size >= 2 /\ c[s].used \in BOOLEAN
  BY <1>1, PlaceFacts DEF HeapBlock
<1>4. s + c[s].size \in DOMAIN c \cup {END} /\ \A t \in DOMAIN c : ~(s < t /\ t < s + c[s].size)
  BY DEF Whole, Tiles
<1>5. s + c[s].size <= END
  BY <1>1, <1>4, PlaceFacts DEF Offset
<1>6. \A t \in DOMAIN c : s < t => s + c[s].size <= t
  BY <1>1, <1>2, <1>3, <1>4, PlaceFacts
<1> QED BY <1>2, <1>3, <1>4, <1>5, <1>6

\* A set of numbers that is not empty has a least one.
LEMMA LeastOf ==
  ASSUME NEW S \in SUBSET Nat, S # {}
  PROVE  \E x \in S : \A y \in S : x <= y
<1> DEFINE R == {ss \in Nat \X Nat : ss[1] < ss[2]}
<1>1. IsWellFoundedOn(R, Nat)
  BY NatLessThanWellFounded DEF OpToRel
<1>2. \A x, y \in Nat : <<y, x>> \in R <=> y < x
  OBVIOUS
<1> HIDE DEF R
<1>3. PICK x \in S : \A y \in S : ~(<<y, x>> \in R)
  BY <1>1, WFMin
<1>4. \A y \in S : y \in Nat /\ x \in Nat /\ ~(y < x)
  BY <1>2, <1>3
<1>5. \A y \in S : x <= y
  BY <1>4
<1> QED BY <1>5

\* Where a run ends: at the next used block or the end, with none but free ones
\* on the way.
LEMMA Ends ==
  ASSUME NEW c, Whole(c), NEW off \in DOMAIN c
  PROVE  /\ RunEnd(c, off) \in Nat /\ RunEnd(c, off) \in DOMAIN c \cup {END}
         /\ RunEnd(c, off) \in DOMAIN c => c[RunEnd(c, off)].used
         /\ off + c[off].size <= RunEnd(c, off) /\ RunEnd(c, off) <= END
         /\ \A t \in DOMAIN c \cup {END} :
              off < t /\ (t \in DOMAIN c => c[t].used) => RunEnd(c, off) <= t
<1> DEFINE S == Stops(c, off)
<1>1. S \in SUBSET Nat /\ \A t \in DOMAIN c : t \in Nat /\ t < END
  BY Apart, PlaceFacts DEF Stops
<1>2. END \in S
  BY <1>1, PlaceFacts DEF Stops
<1>3. \E x \in S : \A y \in S : x <= y
  BY <1>1, <1>2, LeastOf
<1>4. RunEnd(c, off) \in S /\ \A y \in S : RunEnd(c, off) <= y
  BY <1>3, Zenon DEF RunEnd
<1>5. PICK r : r = RunEnd(c, off)
  OBVIOUS
<1>6. /\ r \in Nat /\ r \in DOMAIN c \cup {END} /\ r > off
      /\ r \in DOMAIN c => c[r].used
      /\ \A y \in S : r <= y
  BY <1>1, <1>4, <1>5 DEF Stops
<1>7. off + c[off].size <= r
  <2>1. off \in Nat /\ c[off].size \in Nat /\ off + c[off].size <= END
        /\ \A t \in DOMAIN c : off < t => off + c[off].size <= t
    BY Apart
  <2>2. CASE r \in DOMAIN c
    BY <1>6, <2>1, <2>2
  <2>3. CASE r = END
    BY <2>1, <2>3
  <2> QED BY <1>6, <2>2, <2>3
<1>8. r <= END
  BY <1>2, <1>6
<1>9. \A t \in DOMAIN c \cup {END} : off < t /\ (t \in DOMAIN c => c[t].used) => t \in S
  BY DEF Stops
<1> QED BY <1>5, <1>6, <1>7, <1>8, <1>9

-----------------------------------------------------------------------------
(* Free blocks taken together, as blk_coalesce and the walk do.             *)

Within(c, P) == {t \in DOMAIN c : \E p \in P : p < t /\ t < RunEnd(c, p)}

Gathered(c, P) ==
  [s \in DOMAIN c \ Within(c, P) |-> IF s \in P THEN Block(RunEnd(c, s) - s, FALSE) ELSE c[s]]

LEMMA GatherTiles ==
  ASSUME NEW c, Whole(c), NEW P \in SUBSET Free(c)
  PROVE  /\ Whole(Gathered(c, P)) /\ UsedIn(Gathered(c, P)) = UsedIn(c)
         /\ DOMAIN Gathered(c, P) \subseteq DOMAIN c
         /\ \A u \in UsedIn(c) : Gathered(c, P)[u] = c[u]
         /\ \A p \in P : p \notin Within(c, P) =>
              p \in DOMAIN Gathered(c, P) /\ Gathered(c, P)[p] = Block(RunEnd(c, p) - p, FALSE)
<1> DEFINE g == Gathered(c, P)
           D == DOMAIN c \ Within(c, P)
<1>1. /\ DOMAIN g = D /\ D \subseteq DOMAIN c
      /\ \A s \in D : g[s] = IF s \in P THEN Block(RunEnd(c, s) - s, FALSE) ELSE c[s]
  BY DEF Gathered
<1>2. /\ P \subseteq DOMAIN c /\ \A p \in P : ~c[p].used
      /\ DOMAIN c \subseteq Offset
  BY DEF Free, Whole
<1>3. \A p \in P : /\ RunEnd(c, p) \in Nat /\ RunEnd(c, p) \in DOMAIN c \cup {END}
                   /\ RunEnd(c, p) \in DOMAIN c => c[RunEnd(c, p)].used
                   /\ p + 2 <= RunEnd(c, p) /\ RunEnd(c, p) <= END
                   /\ p \in Nat /\ BASE <= p
                   /\ \A t \in DOMAIN c : p < t /\ c[t].used => RunEnd(c, p) <= t
  <2> TAKE p \in P
  <2>1. p \in DOMAIN c
    BY <1>2
  <2>2. p \in Nat /\ c[p].size \in Nat /\ c[p].size >= 2 /\ BASE <= p
    BY <2>1, Apart
  <2> QED BY <2>1, <2>2, Ends
<1>4. \A t \in DOMAIN c : t \in Within(c, P) => ~c[t].used
  <2> SUFFICES ASSUME NEW t \in DOMAIN c, NEW p \in P, p < t, t < RunEnd(c, p) PROVE ~c[t].used
    BY DEF Within
  <2>1. t \in Nat /\ c[t].used \in BOOLEAN
    BY Apart
  <2> QED BY <1>3, <2>1
<1> HIDE DEF g, D
<1>5. BASE \in D
  <2>1. BASE \in DOMAIN c
    BY DEF Whole, Tiles
  <2>2. \A p \in P : ~(p < BASE)
    BY <1>3, PlaceFacts
  <2> QED BY <2>1, <2>2 DEF Within, D
<1>6. ASSUME NEW s \in D
      PROVE  /\ g[s] \in HeapBlock /\ s + g[s].size \in D \cup {END}
             /\ \A t \in D : ~(s < t /\ t < s + g[s].size)
  <2>1. /\ s \in DOMAIN c /\ s \in Nat /\ c[s].size \in Nat /\ c[s].size >= 2
        /\ s + c[s].size \in DOMAIN c \cup {END} /\ s + c[s].size <= END /\ BASE <= s
        /\ \A t \in DOMAIN c : s < t => s + c[s].size <= t
    BY <1>1, Apart
  <2>2. \A t \in DOMAIN c : t \in Nat
    BY Apart
  <2>3. CASE s \in P
    <3>1. PICK r : r = RunEnd(c, s)
      OBVIOUS
    <3>2. /\ r \in Nat /\ r \in DOMAIN c \cup {END}
          /\ r \in DOMAIN c => c[r].used
          /\ s + 2 <= r /\ r <= END
      BY <1>3, <2>3, <3>1
    <3>3. g[s] = Block(r - s, FALSE)
      BY <1>1, <2>3, <3>1
    <3>4. g[s].size = r - s /\ s + g[s].size = r /\ g[s] \in HeapBlock
      BY <2>1, <3>2, <3>3, PlaceFacts DEF Block, HeapBlock
    <3>5. r \in D \cup {END}
      BY <1>4, <3>2 DEF D
    <3>6. \A t \in D : ~(s < t /\ t < r)
      BY <2>3, <3>1 DEF D, Within
    <3> QED BY <3>4, <3>5, <3>6
  <2>4. CASE s \notin P
    <3>1. g[s] = c[s]
      BY <1>1, <2>4
    <3>2. c[s] \in HeapBlock
      BY <2>1 DEF Whole
    <3>3. s + c[s].size \in D \cup {END}
      <4> SUFFICES ASSUME s + c[s].size \in DOMAIN c, NEW p \in P,
                          p < s + c[s].size, s + c[s].size < RunEnd(c, p)
                   PROVE  FALSE
        BY <2>1 DEF D, Within
      <4>1. p \in Nat /\ RunEnd(c, p) \in Nat /\ p \in DOMAIN c
        BY <1>2, <1>3
      <4>2. ~(s < p)
        BY <2>1, <4>1
      <4>3. p < s /\ s < RunEnd(c, p)
        BY <2>1, <2>4, <4>1, <4>2
      <4> QED BY <4>3 DEF D, Within
    <3>4. \A t \in D : ~(s < t /\ t < s + c[s].size)
      BY <1>1, <2>1, <2>2
    <3> QED BY <3>1, <3>2, <3>3, <3>4
  <2> QED BY <2>3, <2>4
<1>7. Whole(g)
  BY <1>1, <1>2, <1>5, <1>6 DEF Whole, Tiles
<1>8. \A u \in UsedIn(c) : u \in D /\ u \notin P /\ g[u] = c[u]
  BY <1>1, <1>2, <1>4 DEF UsedIn, Free, D
<1>9. UsedIn(g) = UsedIn(c)
  <2>1. \A u \in UsedIn(g) : u \in D /\ g[u].used
    BY <1>1, <1>7, Apart DEF UsedIn, Free
  <2>2. \A u \in UsedIn(g) : u \in UsedIn(c)
    <3> TAKE u \in UsedIn(g)
    <3>1. u \notin P
      BY <1>1, <2>1 DEF Block
    <3> QED BY <1>1, <2>1, <3>1 DEF UsedIn, Free
  <2>3. \A u \in UsedIn(c) : u \in UsedIn(g)
    BY <1>1, <1>8 DEF UsedIn, Free
  <2> QED BY <2>2, <2>3
<1>10. \A p \in P : p \notin Within(c, P) => p \in D /\ g[p] = Block(RunEnd(c, p) - p, FALSE)
  BY <1>1, <1>2 DEF D
<1> QED BY <1>1, <1>7, <1>8, <1>9, <1>10 DEF g

LEMMA CoalescedGathers ==
  ASSUME NEW c, Whole(c), NEW off \in Free(c)
  PROVE  /\ Coalesced(c, off) = Gathered(c, {off}) /\ off \notin Within(c, {off})
         /\ off \in DOMAIN Coalesced(c, off)
         /\ Coalesced(c, off)[off] = Block(RunEnd(c, off) - off, FALSE)
<1>1. off \in DOMAIN c /\ off \in Nat /\ RunEnd(c, off) \in Nat
      /\ \A t \in DOMAIN c : t \in Nat
  BY Ends, Apart DEF Free
<1>2. DOMAIN c \ (off + 1 .. RunEnd(c, off) - 1) = DOMAIN c \ Within(c, {off})
  BY <1>1 DEF Within
<1>3. off \notin Within(c, {off})
  BY <1>1 DEF Within
<1> QED BY <1>1, <1>2, <1>3 DEF Coalesced, Gathered

LEMMA TidiedGathers ==
  ASSUME NEW c, NEW last
  PROVE  Tidied(c, last) = Gathered(c, {p \in Free(c) : p <= last})
<1> DEFINE P == {p \in Free(c) : p <= last}
<1>1. Swallowed(c, last) = Within(c, P)
  BY DEF Swallowed, Within
<1>2. \A s : s \in P <=> s \in Free(c) /\ s <= last
  OBVIOUS
<1> QED BY <1>1, <1>2 DEF Tidied, Gathered

\* The first room is not inside a run that begins before it.
LEMMA RoomStands ==
  ASSUME NEW c, Whole(c), NEW need \in Nat, NEW off, FirstRoom(c, need, off)
  PROVE  /\ off \in Free(c) /\ RunEnd(c, off) - off >= need
         /\ off \in DOMAIN Tidied(c, off)
         /\ Tidied(c, off)[off] = Block(RunEnd(c, off) - off, FALSE)
<1> DEFINE P == {p \in Free(c) : p <= off}
<1>1. /\ off \in Free(c) /\ RunEnd(c, off) - off >= need /\ Free(c) \subseteq DOMAIN c
      /\ \A o \in Free(c) : RunEnd(c, o) - o >= need => off <= o
  BY DEF FirstRoom, Rooms, Free
<1>2. off \in Nat /\ RunEnd(c, off) \in Nat
      /\ off + c[off].size <= RunEnd(c, off) /\ c[off].size \in Nat
  BY <1>1, Ends, Apart
<1>3. off \notin Within(c, P)
  <2> SUFFICES ASSUME NEW p \in P, p < off, off < RunEnd(c, p) PROVE FALSE
    BY DEF Within
  <2>1. p \in Free(c) /\ p \in DOMAIN c
    BY <1>1
  <2>2. p \in Nat /\ RunEnd(c, p) \in Nat /\ RunEnd(c, p) \in DOMAIN c \cup {END}
        /\ (RunEnd(c, p) \in DOMAIN c => c[RunEnd(c, p)].used)
    BY <2>1, Ends, Apart
  <2>3. RunEnd(c, off) <= RunEnd(c, p)
    BY <1>1, <2>2, Ends
  <2> QED BY <1>1, <1>2, <2>1, <2>2, <2>3
<1>4. off \in P /\ P \in SUBSET Free(c)
  BY <1>1, <1>2
<1>5. Tidied(c, off) = Gathered(c, P)
  BY TidiedGathers
<1> HIDE DEF P
<1>6. off \in DOMAIN Gathered(c, P) /\ Gathered(c, P)[off] = Block(RunEnd(c, off) - off, FALSE)
  BY <1>3, <1>4, GatherTiles
<1> QED BY <1>1, <1>5, <1>6

-----------------------------------------------------------------------------
(* A block cut in two, given back, or grown into its neighbour.             *)

LEMMA CarveTiles ==
  ASSUME NEW c, Whole(c), NEW off \in DOMAIN c, NEW size \in Nat, c[off].size = size,
         NEW need \in Nat, 2 <= need, need <= size
  PROVE  \A k : k = Carved(c, off, size, need) =>
             /\ Whole(k) /\ UsedIn(k) = UsedIn(c) \cup {off}
             /\ DOMAIN k \subseteq DOMAIN c \cup Written(off, size, need)
             /\ \A s \in DOMAIN c : s # off => s \in DOMAIN k /\ k[s] = c[s]
             /\ off \in DOMAIN k /\ need <= k[off].size /\ k[off].size <= size
             /\ Splits(size, need) =>
                  off + need \in Free(k) /\ off + need \notin DOMAIN c /\ k[off].size = need
<1> DEFINE k == Carved(c, off, size, need)
<1>1. /\ off \in Nat /\ BASE <= off /\ off < END /\ off + size <= END
      /\ off + size \in DOMAIN c \cup {END}
      /\ \A t \in DOMAIN c : off < t => off + size <= t
      /\ \A t \in DOMAIN c : t \in Nat /\ BASE <= t /\ t < END
  BY Apart
<1>2. CASE Splits(size, need)
  <2>1. /\ DOMAIN k = DOMAIN c \cup {off + need}
        /\ \A s \in DOMAIN c \cup {off + need} :
             k[s] = IF s = off THEN Block(need, TRUE)
                    ELSE IF s = off + need THEN Block(size - need, FALSE) ELSE c[s]
        /\ size >= need + 2
    BY <1>2 DEF Carved, Splits
  <2> HIDE DEF k
  <2>2. PICK n \in Nat : n = off + need /\ off < n /\ n + 2 <= off + size
    BY <1>1, <2>1
  <2>3. /\ n \notin DOMAIN c /\ n # off /\ n \in Offset
        /\ DOMAIN k = DOMAIN c \cup {n} /\ k[n] = Block(size - need, FALSE)
        /\ k[off] = Block(need, TRUE)
        /\ \A s \in DOMAIN c : s # off => s \in DOMAIN k /\ k[s] = c[s]
    <3>1. n \notin DOMAIN c
      BY <1>1, <2>2
    <3>2. n # off /\ n \in Offset
      BY <1>1, <2>2, PlaceFacts DEF Offset
    <3>3. off \in DOMAIN k /\ n \in DOMAIN k /\ DOMAIN k = DOMAIN c \cup {n}
      BY <2>1, <2>2
    <3>4. k[n] = Block(size - need, FALSE) /\ k[off] = Block(need, TRUE)
      BY <2>1, <2>2, <3>2, <3>3
    <3>5. \A s \in DOMAIN c : s # off => s \in DOMAIN k /\ k[s] = c[s]
      BY <2>1, <2>2, <3>1, <3>3
    <3> QED BY <3>1, <3>2, <3>3, <3>4, <3>5
  <2>4. /\ k[n] \in HeapBlock /\ k[off] \in HeapBlock /\ k[off].used /\ ~k[n].used
        /\ k[off].size = need /\ k[n].size = size - need
    BY <1>1, <2>1, <2>3, PlaceFacts DEF Block, HeapBlock
  <2>5. Whole(k)
    <3>1. DOMAIN k \subseteq Offset /\ BASE \in DOMAIN k
      BY <2>3 DEF Whole, Tiles
    <3>2. ASSUME NEW s \in DOMAIN k
          PROVE  /\ k[s] \in HeapBlock /\ s + k[s].size \in DOMAIN k \cup {END}
                 /\ \A t \in DOMAIN k : ~(s < t /\ t < s + k[s].size)
      <4>0. \A t \in DOMAIN k : t = n \/ (t \in DOMAIN c /\ t \in Nat /\ (off < t => off + size <= t))
        BY <1>1, <2>3
      <4>1. CASE s = off
        <5>1. s + k[s].size = n
          BY <2>2, <2>4, <4>1
        <5>2. \A t \in DOMAIN k : ~(s < t /\ t < n)
          BY <1>1, <2>2, <4>0, <4>1
        <5> QED BY <2>3, <2>4, <4>1, <5>1, <5>2
      <4>2. CASE s = n
        <5>1. s + k[s].size = off + size
          BY <1>1, <2>2, <2>4, <4>2
        <5>2. \A t \in DOMAIN k : ~(s < t /\ t < off + size)
          BY <1>1, <2>2, <4>0, <4>2
        <5> QED BY <1>1, <2>3, <2>4, <4>2, <5>1, <5>2
      <4>3. CASE s \in DOMAIN c /\ s # off
        <5>1. k[s] = c[s] /\ c[s] \in HeapBlock /\ s + c[s].size \in DOMAIN c \cup {END}
              /\ s \in Nat /\ c[s].size \in Nat
              /\ \A t \in DOMAIN c : s < t => s + c[s].size <= t
          BY <2>3, <4>3, Apart DEF Whole
        <5>2. ~(s < n /\ n < s + c[s].size)
          <6>1. s < off => s + c[s].size <= off
            BY <5>1
          <6>2. off < s => off + size <= s
            BY <1>1, <4>3
          <6> QED BY <1>1, <2>2, <4>3, <5>1, <6>1, <6>2
        <5>3. \A t \in DOMAIN c : ~(s < t /\ t < s + c[s].size)
          BY <1>1, <5>1
        <5> QED BY <2>3, <5>1, <5>2, <5>3
      <4> QED BY <2>3, <4>1, <4>2, <4>3
    <3> QED BY <3>1, <3>2 DEF Whole, Tiles
  <2>6. UsedIn(k) = UsedIn(c) \cup {off}
    BY <2>3, <2>4 DEF UsedIn, Free
  <2>7. n \in Free(k)
    BY <2>3, <2>4 DEF Free
  <2>8. DOMAIN k \subseteq DOMAIN c \cup Written(off, size, need)
    BY <1>2, <2>2, <2>3 DEF Written
  <2>9. need <= k[off].size /\ k[off].size <= size
    BY <2>1, <2>4
  <2>10. Whole(k) /\ UsedIn(k) = UsedIn(c) \cup {off}
         /\ DOMAIN k \subseteq DOMAIN c \cup Written(off, size, need)
         /\ (\A s \in DOMAIN c : s # off => s \in DOMAIN k /\ k[s] = c[s])
         /\ off \in DOMAIN k /\ need <= k[off].size /\ k[off].size <= size
         /\ (Splits(size, need) =>
               off + need \in Free(k) /\ off + need \notin DOMAIN c /\ k[off].size = need)
    BY <2>2, <2>3, <2>4, <2>5, <2>6, <2>7, <2>8, <2>9
  <2> QED BY <2>10 DEF k
<1>3. CASE ~Splits(size, need)
  <2>1. /\ DOMAIN k = DOMAIN c /\ k[off] = Block(size, TRUE)
        /\ \A s \in DOMAIN c : s # off => k[s] = c[s]
    BY <1>3 DEF Carved
  <2> HIDE DEF k
  <2>2. k[off].size = size /\ k[off].used /\ k[off] \in HeapBlock
    BY <1>1, <2>1, PlaceFacts DEF Block, HeapBlock
  <2>3. \A s \in DOMAIN c : k[s].size = c[s].size /\ k[s] \in HeapBlock
    BY <2>1, <2>2 DEF Whole
  <2>4. Whole(k)
    BY <2>1, <2>3 DEF Whole, Tiles
  <2>5. UsedIn(k) = UsedIn(c) \cup {off}
    BY <2>1, <2>2 DEF UsedIn, Free
  <2>6. Whole(k) /\ UsedIn(k) = UsedIn(c) \cup {off}
         /\ DOMAIN k \subseteq DOMAIN c \cup Written(off, size, need)
         /\ (\A s \in DOMAIN c : s # off => s \in DOMAIN k /\ k[s] = c[s])
         /\ off \in DOMAIN k /\ need <= k[off].size /\ k[off].size <= size
         /\ (Splits(size, need) =>
               off + need \in Free(k) /\ off + need \notin DOMAIN c /\ k[off].size = need)
    <3>1. need <= k[off].size /\ k[off].size <= size
      BY <2>2
    <3>2. DOMAIN k \subseteq DOMAIN c \cup Written(off, size, need)
      BY <2>1
    <3> QED BY <1>3, <2>1, <2>4, <2>5, <3>1, <3>2
  <2> QED BY <2>6 DEF k
<1> QED BY <1>2, <1>3

LEMMA ReturnTiles ==
  ASSUME NEW c, Whole(c), NEW off \in UsedIn(c)
  PROVE  /\ Whole(Returned(c, off)) /\ UsedIn(Returned(c, off)) = UsedIn(c) \ {off}
         /\ DOMAIN Returned(c, off) \subseteq DOMAIN c
         /\ \A u \in UsedIn(c) : u # off => Returned(c, off)[u] = c[u]
<1> DEFINE k == [c EXCEPT ![off].used = FALSE]
<1>1. off \in DOMAIN c /\ c[off] \in HeapBlock
  BY DEF UsedIn, Whole
<1>2. /\ DOMAIN k = DOMAIN c /\ k[off] \in HeapBlock /\ k[off].size = c[off].size /\ ~k[off].used
      /\ \A s \in DOMAIN c : s # off => k[s] = c[s]
  BY <1>1 DEF HeapBlock
<1> HIDE DEF k
<1>3. \A s \in DOMAIN c : k[s].size = c[s].size /\ k[s] \in HeapBlock
  BY <1>2 DEF Whole
<1>4. Whole(k)
  BY <1>2, <1>3 DEF Whole, Tiles
<1>5. UsedIn(k) = UsedIn(c) \ {off} /\ off \in Free(k)
  BY <1>1, <1>2 DEF UsedIn, Free
<1>6. Returned(c, off) = Gathered(k, {off})
  BY <1>4, <1>5, CoalescedGathers DEF Returned, k
<1>7. /\ Whole(Gathered(k, {off})) /\ UsedIn(Gathered(k, {off})) = UsedIn(k)
      /\ DOMAIN Gathered(k, {off}) \subseteq DOMAIN k
      /\ \A u \in UsedIn(k) : Gathered(k, {off})[u] = k[u]
  <2>1. {off} \in SUBSET Free(k)
    BY <1>5
  <2> QED BY <1>4, <2>1, GatherTiles
<1>8. \A u \in UsedIn(c) : u # off => u \in DOMAIN c
  BY DEF UsedIn
<1> QED BY <1>2, <1>5, <1>6, <1>7, <1>8

-----------------------------------------------------------------------------
(* A block given out: lmem_alloc, on its own and inside a reallocation.     *)

Values == Stores \cup {0, Dirt, Hdr}
Memory == [Word -> Values]

LEMMA NeedFacts ==
  \A words \in 0 .. SEG : /\ Need(words) \in Nat /\ 2 <= Need(words)
                          /\ words + 1 < SEG => Asked(words) = words + 1 /\ words < Need(words)
BY PlaceFacts DEF Need, Asked

\* What is free and used apart: a used block is before the run or after it.
LEMMA RunApart ==
  ASSUME NEW c, Whole(c), NEW off \in Free(c)
  PROVE  \A u \in UsedIn(c) : u # off /\ (u + c[u].size <= off \/ RunEnd(c, off) <= u)
<1> TAKE u \in UsedIn(c)
<1>1. u \in DOMAIN c /\ c[u].used /\ off \in DOMAIN c /\ ~c[off].used
  BY DEF UsedIn, Free
<1>2. u \in Nat /\ off \in Nat /\ RunEnd(c, off) \in Nat
  BY <1>1, Apart, Ends
<1>3. u # off
  BY <1>1
<1>4. CASE u < off
  BY <1>1, <1>4, <1>3, Apart
<1>5. CASE off < u
  BY <1>1, <1>5, <1>3, Ends
<1> QED BY <1>2, <1>3, <1>4, <1>5

LEMMA GivenTiles ==
  ASSUME NEW c, Whole(c), NEW words \in 0 .. SEG, NEW off, FirstRoom(c, Need(words), off)
  PROVE  LET g == Given(c, off, words)
             r == RunEnd(c, off)
         IN  /\ off \in Free(c) /\ off \in Nat /\ r \in Nat /\ off + 2 <= r /\ r <= END
             /\ Whole(g) /\ UsedIn(g) = UsedIn(c) \cup {off}
             /\ \A u \in UsedIn(c) : g[u] = c[u]
             /\ DOMAIN g \subseteq DOMAIN c \cup Written(off, r - off, Need(words))
             /\ off \in DOMAIN g /\ Need(words) <= g[off].size /\ g[off].size <= r - off
<1>1. PICK need \in Nat : need = Need(words) /\ 2 <= need
  BY NeedFacts
<1>2. PICK r : r = RunEnd(c, off)
  OBVIOUS
<1>3. PICK t : t = Tidied(c, off)
  OBVIOUS
<1>4. /\ off \in Free(c) /\ r - off >= need /\ off \in DOMAIN t
      /\ t[off] = Block(r - off, FALSE)
  BY <1>1, <1>2, <1>3, RoomStands
<1>5. off \in DOMAIN c /\ off \in Nat /\ r \in Nat /\ r <= END
  BY <1>2, <1>4, Ends, Apart DEF Free
<1>6. /\ Whole(t) /\ UsedIn(t) = UsedIn(c) /\ DOMAIN t \subseteq DOMAIN c
      /\ \A u \in UsedIn(c) : t[u] = c[u]
  <2> DEFINE P == {p \in Free(c) : p <= off}
  <2>1. t = Gathered(c, P) /\ P \in SUBSET Free(c)
    BY <1>3, TidiedGathers
  <2> HIDE DEF P
  <2> QED BY <2>1, GatherTiles
<1>7. PICK size \in Nat : size = r - off /\ t[off].size = size /\ need <= size
  BY <1>1, <1>4, <1>5 DEF Block
<1>8. PICK g : g = Carved(t, off, size, need)
  OBVIOUS
<1>9. g = Given(c, off, words)
  BY <1>1, <1>2, <1>3, <1>7, <1>8 DEF Given
<1>10. /\ Whole(g) /\ UsedIn(g) = UsedIn(t) \cup {off}
       /\ DOMAIN g \subseteq DOMAIN t \cup Written(off, size, need)
       /\ \A s \in DOMAIN t : s # off => s \in DOMAIN g /\ g[s] = t[s]
       /\ off \in DOMAIN g /\ need <= g[off].size /\ g[off].size <= size
  <2>1. /\ Whole(t) /\ off \in DOMAIN t /\ size \in Nat /\ t[off].size = size
        /\ need \in Nat /\ 2 <= need /\ need <= size
    BY <1>1, <1>4, <1>6, <1>7
  <2> QED BY <1>8, <2>1, CarveTiles, SMTT(60)
<1>11. \A u \in UsedIn(c) : g[u] = c[u]
  <2>1. \A u \in UsedIn(c) : u \in DOMAIN t /\ u # off
    BY <1>4, <1>6 DEF UsedIn
  <2> QED BY <1>6, <1>10, <2>1
<1>12. off + 2 <= r
  BY <1>1, <1>5, <1>7
<1>13. DOMAIN g \subseteq DOMAIN c \cup Written(off, r - off, Need(words))
  BY <1>1, <1>6, <1>7, <1>10
<1> QED BY <1>1, <1>2, <1>4, <1>5, <1>6, <1>7, <1>9, <1>10, <1>11, <1>12, <1>13

LEMMA HeadedWords ==
  ASSUME NEW m \in Memory, NEW offs
  PROVE  /\ Headed(m, offs) \in Memory
         /\ \A w \in Word : Headed(m, offs)[w] = IF w \in offs THEN Hdr ELSE m[w]
BY DEF Headed, Memory, Values

LEMMA ZeroWords ==
  ASSUME NEW m \in Memory, NEW ws
  PROVE  /\ ZeroedWords(m, ws) \in Memory
         /\ \A w \in Word : ZeroedWords(m, ws)[w] = IF w \in ws THEN 0 ELSE m[w]
BY DEF ZeroedWords, Memory, Values

LEMMA GivenWords ==
  ASSUME NEW c, Whole(c), NEW words \in 0 .. SEG, NEW off, FirstRoom(c, Need(words), off),
         NEW m \in Memory, NEW zero \in BOOLEAN
  PROVE  /\ GivenMem(c, m, off, words, zero) \in Memory
         /\ \A w \in Word : w < off \/ RunEnd(c, off) <= w
              => GivenMem(c, m, off, words, zero)[w] = m[w]
         /\ (\A s \in DOMAIN c : m[s] = Hdr) =>
              \A s \in DOMAIN Given(c, off, words) : GivenMem(c, m, off, words, zero)[s] = Hdr
<1>1. PICK r : r = RunEnd(c, off)
  OBVIOUS
<1>2. PICK g : g = Given(c, off, words)
  OBVIOUS
<1>3. PICK need \in Nat : need = Need(words) /\ 2 <= need
  BY NeedFacts
<1>4. /\ off \in Nat /\ r \in Nat /\ off + 2 <= r /\ r <= END
      /\ Whole(g) /\ DOMAIN g \subseteq DOMAIN c \cup Written(off, r - off, need)
      /\ off \in DOMAIN g /\ g[off].size <= r - off
  BY <1>1, <1>2, <1>3, GivenTiles
<1>5. PICK hs : hs = Written(off, r - off, need)
  OBVIOUS
<1>6. \A w \in hs : off <= w /\ w < r
  BY <1>3, <1>4, <1>5 DEF Written, Splits
<1>7. PICK h \in Memory : h = Headed(m, hs) /\ \A w \in Word : h[w] = IF w \in hs THEN Hdr ELSE m[w]
  BY HeadedWords
<1>8. PICK ws : ws = Payload(g, off)
  OBVIOUS
<1>9. \A w \in ws : w \in Nat /\ off < w /\ w < r
  <2>1. g[off].size \in Nat
    BY <1>4, Apart
  <2> QED BY <1>4, <1>8, <2>1 DEF Payload
<1>10. \A s \in DOMAIN g : s \notin ws /\ s \in Word
  <2>1. g[off].size \in Nat /\ \A s \in DOMAIN g : s \in Nat /\ (off < s => off + g[off].size <= s)
    BY <1>4, Apart
  <2>2. \A s \in DOMAIN g : s \in Word
    BY <1>4, PlaceFacts DEF Whole
  <2>3. \A s \in DOMAIN g : s \notin off + 1 .. off + g[off].size - 1
    BY <1>4, <2>1
  <2> QED BY <1>8, <2>2, <2>3 DEF Payload
<1>11. PICK z : z = ZeroedWords(h, ws)
  OBVIOUS
<1>12. z \in Memory /\ \A w \in Word : z[w] = IF w \in ws THEN 0 ELSE h[w]
  BY <1>11, ZeroWords
<1>13. PICK mm : mm = GivenMem(c, m, off, words, zero)
  OBVIOUS
<1>14. mm = IF zero THEN z ELSE h
  BY <1>1, <1>2, <1>3, <1>5, <1>7, <1>8, <1>11, <1>13 DEF GivenMem
<1>15. mm \in Memory
  BY <1>12, <1>14
<1>16. \A w \in Word : w < off \/ r <= w => mm[w] = m[w]
  <2> SUFFICES ASSUME NEW w \in Word, w < off \/ r <= w PROVE mm[w] = m[w]
    OBVIOUS
  <2>1. w \in Nat
    BY PlaceFacts DEF Word
  <2>2. w \notin hs /\ w \notin ws
    BY <1>4, <1>6, <1>9, <2>1
  <2> QED BY <1>7, <1>12, <1>14, <2>2
<1>17. (\A s \in DOMAIN c : m[s] = Hdr) => \A s \in DOMAIN g : mm[s] = Hdr
  <2>1. \A s \in DOMAIN g : s \in DOMAIN c \/ s \in hs
    BY <1>4, <1>5
  <2> QED BY <1>7, <1>10, <1>12, <1>14, <2>1
<1> QED BY <1>1, <1>2, <1>13, <1>15, <1>16, <1>17

-----------------------------------------------------------------------------
(* The heap, its words, and who holds what.                                 *)

HeapInv == LocalTypeOK /\ ChainTiles /\ UsedAreHeld /\ HeadersIntact /\ EnoughGiven

Calls == [op : {"init", "alloc", "realloc", "free", "store"},
          from : Word, want : 0 .. SEG, h : Word]

HandlesOf(used) == {HandleAt(u) : u \in used}

\* What a call leaves of the words of the block behind h.
SameWords(h) == \A w \in Payload(chain, HeaderOf(h)) : mem'[w] = mem[w]

CallKeeps ==
  \A h \in held :
    localRet'.op # "store" =>
      IF localRet'.op \in {"free", "realloc"} /\ localRet'.from = h /\ localRet'.h # 0
      THEN Kept(h, localRet'.h)
      ELSE h \in held' => Kept(h, h)

LEMMA HeapParts ==
  HeapInv =>
    /\ Whole(chain) /\ mem \in Memory /\ held = HandlesOf(UsedIn(chain)) /\ localRet \in Calls
    /\ \A s \in DOMAIN chain : mem[s] = Hdr
    /\ \A h \in held : HeaderOf(h) \in UsedIn(chain) /\ h = HandleAt(HeaderOf(h))
    /\ EnoughGiven
<1> SUFFICES ASSUME HeapInv
             PROVE  /\ Whole(chain) /\ mem \in Memory /\ held = HandlesOf(UsedIn(chain))
                    /\ localRet \in Calls
                    /\ \A s \in DOMAIN chain : mem[s] = Hdr
                    /\ \A h \in held : HeaderOf(h) \in UsedIn(chain) /\ h = HandleAt(HeaderOf(h))
                    /\ EnoughGiven
  OBVIOUS
<1>1. Whole(chain)
  BY DEF HeapInv, LocalTypeOK, ChainTiles, Whole, HeapBlock
<1>2. held = HandlesOf(UsedIn(chain))
  BY DEF HeapInv, UsedAreHeld, HandlesOf, UsedIn
<1>3. \A u \in UsedIn(chain) : u \in Nat
  BY <1>1, Apart DEF UsedIn
<1>4. \A h \in held : HeaderOf(h) \in UsedIn(chain) /\ h = HandleAt(HeaderOf(h))
  BY <1>2, <1>3 DEF HandlesOf, HandleAt, HeaderOf
<1> QED BY <1>1, <1>2, <1>4 DEF HeapInv, LocalTypeOK, HeadersIntact, Memory, Values, Calls

LEMMA HandlesAreWords ==
  ASSUME NEW c, Whole(c), NEW u \in DOMAIN c
  PROVE  HandleAt(u) \in Word /\ HandleAt(u) # 0 /\ HeaderOf(HandleAt(u)) = u
BY Apart, PlaceFacts DEF HandleAt, HeaderOf, Word

LEMMA HeapFrom ==
  /\ Whole(chain') /\ mem' \in Memory /\ held' = HandlesOf(UsedIn(chain')) /\ localRet' \in Calls
  /\ \A s \in DOMAIN chain' : mem'[s] = Hdr
  /\ EnoughGiven'
  => HeapInv'
<1> SUFFICES ASSUME Whole(chain'), mem' \in Memory, held' = HandlesOf(UsedIn(chain')),
                    localRet' \in Calls, \A s \in DOMAIN chain' : mem'[s] = Hdr, EnoughGiven'
             PROVE  HeapInv'
  OBVIOUS
<1>1. held' \subseteq Word
  BY HandlesAreWords DEF HandlesOf, UsedIn
<1>2. LocalTypeOK'
  BY <1>1 DEF LocalTypeOK, Whole, HeapBlock, Memory, Values, Calls
<1>3. ChainTiles' /\ UsedAreHeld' /\ HeadersIntact'
  BY DEF ChainTiles, Whole, UsedAreHeld, HandlesOf, UsedIn, HeadersIntact
<1> QED BY <1>2, <1>3 DEF HeapInv

\* The words of a block are words of the segment and no header.
LEMMA PayloadWords ==
  ASSUME NEW c, Whole(c), NEW u \in DOMAIN c, NEW w \in Payload(c, u)
  PROVE  /\ w \in Word /\ w \in Nat /\ u < w /\ w < u + c[u].size /\ w \notin DOMAIN c
         /\ \A s \in DOMAIN c : s < u => s + c[s].size <= w
         /\ \A s \in DOMAIN c : u < s => w < s
<1>1. /\ u \in Nat /\ c[u].size \in Nat /\ u + c[u].size <= END
      /\ \A t \in DOMAIN c : u < t => u + c[u].size <= t
      /\ \A t \in DOMAIN c : t \in Nat
  BY Apart
<1>2. w \in Nat /\ u < w /\ w < u + c[u].size
  BY <1>1 DEF Payload
<1>3. w \in Word
  BY <1>1, <1>2, PlaceFacts DEF Word
<1>4. w \notin DOMAIN c /\ \A s \in DOMAIN c : u < s => w < s
  BY <1>1, <1>2
<1>5. \A s \in DOMAIN c : s < u => s + c[s].size <= w
  <2> TAKE s \in DOMAIN c
  <2>1. s < u => s + c[s].size <= u /\ s \in Nat /\ c[s].size \in Nat
    BY Apart
  <2> QED BY <1>1, <1>2, <2>1
<1> QED BY <1>2, <1>3, <1>4, <1>5

LEMMA PayloadApart ==
  ASSUME NEW c, Whole(c), NEW off \in Free(c), NEW u \in UsedIn(c), NEW w \in Payload(c, u)
  PROVE  w < off \/ RunEnd(c, off) <= w
<1>1. u \in DOMAIN c /\ off \in DOMAIN c
  BY DEF UsedIn, Free
<1>2. /\ w \in Nat /\ u < w /\ w < u + c[u].size /\ u \in Nat /\ off \in Nat
      /\ RunEnd(c, off) \in Nat /\ c[u].size \in Nat
  BY <1>1, PayloadWords, Apart, Ends
<1>3. u + c[u].size <= off \/ RunEnd(c, off) <= u
  BY RunApart
<1> QED BY <1>2, <1>3

\* A block that stays has what it had where its words are the same.
LEMMA SameIsKept ==
  ASSUME HeapInv, NEW h \in held, SameWords(h) PROVE Kept(h, h)
<1>1. /\ Whole(chain) /\ HeaderOf(h) \in DOMAIN chain /\ h = HandleAt(HeaderOf(h))
  BY HeapParts DEF UsedIn
<1>2. HeaderOf(h) \in Nat /\ chain[HeaderOf(h)].size \in Nat
  BY <1>1, Apart
<1>3. ASSUME NEW k \in 0 .. chain[HeaderOf(h)].size - 2
      PROVE  h + k \in Payload(chain, HeaderOf(h))
  BY <1>1, <1>2 DEF Payload, HandleAt
<1> QED BY <1>3 DEF Kept, SameWords

LEMMA KeepsFrom ==
  ASSUME HeapInv,
         \A h \in held : h # localRet'.from => SameWords(h),
         localRet'.op \in {"free", "realloc"} /\ localRet'.h # 0 /\ localRet'.from \in held
           => Kept(localRet'.from, localRet'.h),
         ~(localRet'.op \in {"free", "realloc"} /\ localRet'.h # 0)
           => \A h \in held : SameWords(h)
  PROVE  CallKeeps
BY SameIsKept DEF CallKeeps

-----------------------------------------------------------------------------
(* Each call keeps the heap whole and the words where they were.            *)

LEMMA RequestFacts ==
  \A words \in Requests : /\ words \in 0 .. SEG /\ words \in Nat /\ 0 \in Word
                          /\ NoLocalWrap => Asked(words) = words + 1 /\ words < Need(words)
                                              /\ words + 1 <= Need(words)
                                              /\ (words >= 1 => Need(words) = words + 1)
BY PlaceFacts, RequestsAssumption DEF NoLocalWrap, Need, Asked, Word

\* What lmem_alloc does where it finds no room: free blocks are taken together.
LEMMA TidyKeeps ==
  ASSUME NEW c, Whole(c), NEW last
  PROVE  /\ Whole(Tidied(c, last)) /\ UsedIn(Tidied(c, last)) = UsedIn(c)
         /\ DOMAIN Tidied(c, last) \subseteq DOMAIN c
         /\ \A u \in UsedIn(c) : Tidied(c, last)[u] = c[u]
<1> DEFINE P == {p \in Free(c) : p <= last}
<1>1. Tidied(c, last) = Gathered(c, P) /\ P \in SUBSET Free(c)
  BY TidiedGathers
<1> HIDE DEF P
<1> QED BY <1>1, GatherTiles

LEMMA AllocKeeps ==
  ASSUME HeapInv, NoLocalWrap, NEW words \in Requests, NEW zero \in BOOLEAN,
         LocalAlloc(words, zero)
  PROVE  HeapInv' /\ CallKeeps
<1>1. /\ Whole(chain) /\ mem \in Memory /\ held = HandlesOf(UsedIn(chain)) /\ localRet \in Calls
      /\ \A s \in DOMAIN chain : mem[s] = Hdr
      /\ \A h \in held : HeaderOf(h) \in UsedIn(chain) /\ h = HandleAt(HeaderOf(h))
  BY HeapParts
<1>2. words \in 0 .. SEG /\ words < Need(words) /\ words \in Nat /\ Need(words) \in Nat /\ 0 \in Word
  BY RequestFacts, NeedFacts
<1>3. ASSUME NEW off \in Free(chain), FirstRoom(chain, Need(words), off),
             chain' = Given(chain, off, words), mem' = GivenMem(chain, mem, off, words, zero),
             held' = held \cup {HandleAt(off)},
             localRet' = Called("alloc", 0, words, HandleAt(off))
      PROVE  HeapInv' /\ CallKeeps
  <2>1. /\ Whole(chain') /\ UsedIn(chain') = UsedIn(chain) \cup {off}
        /\ off \in DOMAIN chain' /\ Need(words) <= chain'[off].size
    BY <1>1, <1>2, <1>3, GivenTiles
  <2>2. /\ mem' \in Memory /\ \A s \in DOMAIN chain' : mem'[s] = Hdr
        /\ \A w \in Word : w < off \/ RunEnd(chain, off) <= w => mem'[w] = mem[w]
    BY <1>1, <1>2, <1>3, GivenWords
  <2>3. HandleAt(off) \in Word /\ HeaderOf(HandleAt(off)) = off
    BY <2>1, HandlesAreWords
  <2>4. held' = HandlesOf(UsedIn(chain'))
    BY <1>1, <1>3, <2>1 DEF HandlesOf
  <2>5. localRet' \in Calls
    BY <1>2, <1>3, <2>3 DEF Called, Calls
  <2>6. EnoughGiven'
    <3>1. localRet'.h = HandleAt(off) /\ localRet'.want = words
      BY <1>3 DEF Called
    <3>2. chain'[off].size \in Nat
      BY <2>1, Apart
    <3>3. chain'[off].size > words
      BY <1>2, <2>1, <3>2
    <3> QED BY <2>3, <3>1, <3>3 DEF EnoughGiven
  <2>7. HeapInv'
    BY <2>1, <2>2, <2>4, <2>5, <2>6, HeapFrom
  <2>8. \A h \in held : SameWords(h)
    <3> SUFFICES ASSUME NEW h \in held, NEW w \in Payload(chain, HeaderOf(h))
                 PROVE  mem'[w] = mem[w]
      BY DEF SameWords
    <3>1. HeaderOf(h) \in UsedIn(chain)
      BY <1>1
    <3>2. w < off \/ RunEnd(chain, off) <= w
      BY <1>1, <1>3, <3>1, PayloadApart
    <3>3. w \in Word
      BY <1>1, <3>1, PayloadWords DEF UsedIn
    <3> QED BY <2>2, <3>2, <3>3
  <2>9. localRet'.op = "alloc"
    BY <1>3 DEF Called
  <2>10. CallKeeps
    BY <2>8, <2>9, KeepsFrom
  <2> QED BY <2>7, <2>10
<1>4. ASSUME chain' = Tidied(chain, END), localRet' = Called("alloc", 0, words, 0),
             UNCHANGED <<mem, held>>
      PROVE  HeapInv' /\ CallKeeps
  <2>1. /\ Whole(chain') /\ UsedIn(chain') = UsedIn(chain) /\ DOMAIN chain' \subseteq DOMAIN chain
    BY <1>1, <1>4, TidyKeeps
  <2>2. mem' = mem /\ held' = held /\ localRet'.h = 0 /\ localRet'.op = "alloc" /\ localRet' \in Calls
    BY <1>2, <1>4 DEF Called, Calls
  <2>3. EnoughGiven'
    BY <2>2 DEF EnoughGiven
  <2>4. HeapInv'
    BY <1>1, <2>1, <2>2, <2>3, HeapFrom
  <2>5. \A h \in held : SameWords(h)
    BY <2>2 DEF SameWords
  <2>6. CallKeeps
    BY <2>2, <2>5, KeepsFrom
  <2> QED BY <2>4, <2>6
<1> QED BY <1>3, <1>4 DEF LocalAlloc

LEMMA FreeKeeps ==
  ASSUME HeapInv, NEW h \in held, LocalFree(h)
  PROVE  HeapInv' /\ CallKeeps
<1>1. /\ Whole(chain) /\ mem \in Memory /\ held = HandlesOf(UsedIn(chain)) /\ localRet \in Calls
      /\ \A s \in DOMAIN chain : mem[s] = Hdr
      /\ \A g \in held : HeaderOf(g) \in UsedIn(chain) /\ g = HandleAt(HeaderOf(g))
  BY HeapParts
<1>2. PICK off : off = HeaderOf(h) /\ off \in UsedIn(chain) /\ h = HandleAt(off)
  BY <1>1
<1>3. /\ Whole(chain') /\ UsedIn(chain') = UsedIn(chain) \ {off}
      /\ DOMAIN chain' \subseteq DOMAIN chain
  BY <1>1, <1>2, ReturnTiles DEF LocalFree
<1>4. mem' = mem /\ held' = held \ {h} /\ localRet' = Called("free", h, 0, 0)
  BY DEF LocalFree
<1>5. held' = HandlesOf(UsedIn(chain'))
  <2>1. \A u \in UsedIn(chain) : u \in Nat
    BY <1>1, Apart DEF UsedIn
  <2>2. \A u \in UsedIn(chain) : HandleAt(u) = h <=> u = off
    BY <1>2, <2>1 DEF HandleAt
  <2>3. HandlesOf(UsedIn(chain) \ {off}) = HandlesOf(UsedIn(chain)) \ {h}
    BY <1>2, <2>2, ZenonT(60) DEF HandlesOf
  <2> QED BY <1>1, <1>3, <1>4, <2>3
<1>6. h \in Word /\ 0 \in Word /\ 0 \in 0 .. SEG
  BY <1>1, <1>2, HandlesAreWords, PlaceFacts DEF UsedIn, Word
<1>7. localRet' \in Calls /\ localRet'.h = 0 /\ localRet'.op = "free"
  BY <1>4, <1>6 DEF Called, Calls
<1>8. EnoughGiven'
  BY <1>7 DEF EnoughGiven
<1>9. HeapInv'
  BY <1>1, <1>3, <1>4, <1>5, <1>7, <1>8, HeapFrom
<1>10. \A g \in held : SameWords(g)
  BY <1>4 DEF SameWords
<1>11. CallKeeps
  BY <1>7, <1>10, KeepsFrom
<1> QED BY <1>9, <1>11

LEMMA StoreKeeps ==
  ASSUME HeapInv, NEW h \in held, NEW w, NEW b \in Stores, LocalStore(h, w, b)
  PROVE  HeapInv' /\ CallKeeps
<1>1. /\ Whole(chain) /\ mem \in Memory /\ held = HandlesOf(UsedIn(chain)) /\ localRet \in Calls
      /\ \A s \in DOMAIN chain : mem[s] = Hdr
      /\ HeaderOf(h) \in UsedIn(chain) /\ h = HandleAt(HeaderOf(h))
  BY HeapParts
<1>2. w \in Payload(chain, HeaderOf(h)) /\ mem' = [mem EXCEPT ![w] = b] /\ chain' = chain
      /\ held' = held /\ localRet' = Called("store", h, 0, h)
  BY DEF LocalStore
<1>3. w \in Word /\ w \notin DOMAIN chain
  BY <1>1, <1>2, PayloadWords DEF UsedIn
<1>4. mem' \in Memory
  BY <1>1, <1>2, <1>3 DEF Memory, Values
<1>5. \A s \in DOMAIN chain : s \in Word
  BY <1>1, PlaceFacts DEF Whole
<1>6. \A s \in DOMAIN chain' : mem'[s] = Hdr
  BY <1>1, <1>2, <1>3, <1>5 DEF Memory
<1>7. h \in Word /\ 0 \in 0 .. SEG
  BY <1>1, HandlesAreWords, PlaceFacts DEF UsedIn
<1>8. localRet' \in Calls /\ localRet'.op = "store"
  BY <1>2, <1>7 DEF Called, Calls
<1>9. EnoughGiven'
  BY <1>8 DEF EnoughGiven
<1>10. HeapInv'
  BY <1>1, <1>2, <1>4, <1>6, <1>8, <1>9, HeapFrom
<1> QED BY <1>8, <1>10 DEF CallKeeps

LEMMA ShrinkKeeps ==
  ASSUME HeapInv, NoLocalWrap, NEW h \in held, NEW words \in Requests,
         LocalReAllocShrink(h, words)
  PROVE  HeapInv' /\ CallKeeps
<1>1. /\ Whole(chain) /\ mem \in Memory /\ held = HandlesOf(UsedIn(chain)) /\ localRet \in Calls
      /\ \A s \in DOMAIN chain : mem[s] = Hdr
      /\ \A g \in held : HeaderOf(g) \in UsedIn(chain) /\ g = HandleAt(HeaderOf(g))
  BY HeapParts
<1>2. PICK off : off = HeaderOf(h) /\ off \in UsedIn(chain) /\ off \in DOMAIN chain /\ h = HandleAt(off)
  BY <1>1 DEF UsedIn
<1>3. PICK size \in Nat : size = chain[off].size
  BY <1>1, <1>2, Apart
<1>4. PICK need \in Nat : need = Asked(words) /\ need = words + 1
  BY RequestFacts
<1>5. /\ words \in 0 .. SEG /\ words \in Nat /\ h \in Word /\ h # 0 /\ off \in Nat
  BY <1>1, <1>2, RequestFacts, HandlesAreWords, Apart
<1>6. words <= size - 1 /\ held' = held /\ localRet' = Called("realloc", h, words, h)
  BY <1>2, <1>3 DEF LocalReAllocShrink
<1>7. localRet' \in Calls /\ localRet'.op = "realloc" /\ localRet'.from = h /\ localRet'.h = h
      /\ localRet'.want = words
  BY <1>5, <1>6 DEF Called, Calls
<1>8. CASE need >= 2 /\ Splits(size, need)
  <2>1. PICK tail \in Nat : tail = off + need
    BY <1>5
  <2>2. PICK cut : cut = Carved(chain, off, size, need)
    OBVIOUS
  <2>3. chain' = Coalesced(cut, tail) /\ mem' = Headed(mem, {off, tail})
    BY <1>2, <1>3, <1>4, <1>8, <2>1, <2>2 DEF LocalReAllocShrink
  <2>4. need <= size /\ need + 2 <= size
    BY <1>8 DEF Splits
  <2>5. /\ Whole(cut) /\ UsedIn(cut) = UsedIn(chain) \cup {off}
        /\ DOMAIN cut \subseteq DOMAIN chain \cup Written(off, size, need)
        /\ off \in DOMAIN cut /\ off + need \in Free(cut) /\ cut[off].size = need
    <3>1. /\ Whole(chain) /\ off \in DOMAIN chain /\ size \in Nat /\ chain[off].size = size
          /\ need \in Nat /\ 2 <= need /\ need <= size
      BY <1>1, <1>2, <1>3, <1>8, <2>4
    <3> QED BY <1>8, <2>2, <3>1, CarveTiles, SMTT(60)
  <2>6. UsedIn(cut) = UsedIn(chain) /\ tail \in Free(cut) /\ off \in UsedIn(cut)
    BY <1>2, <2>1, <2>5
  <2>7. /\ Whole(chain') /\ UsedIn(chain') = UsedIn(chain) /\ DOMAIN chain' \subseteq DOMAIN cut
        /\ chain'[off] = cut[off]
    <3>1. chain' = Gathered(cut, {tail}) /\ {tail} \in SUBSET Free(cut)
      BY <2>3, <2>5, <2>6, CoalescedGathers
    <3> QED BY <2>5, <2>6, <3>1, GatherTiles
  <2>8. /\ mem' \in Memory
        /\ \A w \in Word : mem'[w] = IF w \in {off, tail} THEN Hdr ELSE mem[w]
    BY <1>1, <2>3, HeadedWords
  <2>9. \A s \in DOMAIN chain' : mem'[s] = Hdr
    <3>1. \A s \in DOMAIN chain' : s \in DOMAIN chain \/ s \in {off, tail}
      BY <1>2, <2>1, <2>5, <2>7 DEF Written
    <3>2. \A s \in DOMAIN chain' : s \in Word
      BY <2>7, PlaceFacts DEF Whole
    <3> QED BY <1>1, <2>8, <3>1, <3>2
  <2>10. EnoughGiven'
    <3>1. HeaderOf(localRet'.h) = off
      BY <1>2, <1>7
    <3>2. chain'[off].size > words
      BY <1>4, <1>5, <2>5, <2>7
    <3> QED BY <1>7, <3>1, <3>2 DEF EnoughGiven
  <2>11. HeapInv'
    BY <1>1, <1>6, <1>7, <2>7, <2>8, <2>9, <2>10, HeapFrom
  <2>12. ASSUME NEW g \in held, g # h PROVE SameWords(g)
    <3> SUFFICES ASSUME NEW w \in Payload(chain, HeaderOf(g)) PROVE mem'[w] = mem[w]
      BY DEF SameWords
    <3>1. PICK u : u = HeaderOf(g) /\ u \in DOMAIN chain /\ u # off
      BY <1>1, <1>2, <2>12 DEF UsedIn
    <3>2. /\ w \in Word /\ w \in Nat /\ w \notin DOMAIN chain /\ u \in Nat
          /\ off < u => off + size <= w
          /\ u < off => w < off
      BY <1>1, <1>2, <1>3, <3>1, PayloadWords, Apart
    <3>3. w # off
      BY <1>2, <3>2
    <3>4. CASE off < u
      <4>1. off + size <= w /\ tail < off + size
        BY <1>3, <1>4, <1>5, <2>1, <2>4, <3>2, <3>4
      <4> QED BY <1>3, <1>5, <2>1, <2>8, <3>2, <3>3, <4>1
    <3>5. CASE u < off
      <4>1. w < off /\ off <= tail
        BY <1>4, <1>5, <2>1, <3>2, <3>5
      <4> QED BY <1>5, <2>1, <2>8, <3>2, <3>3, <4>1
    <3> QED BY <1>5, <3>1, <3>2, <3>4, <3>5
  <2>13. Kept(h, h)
    <3> SUFFICES ASSUME NEW k \in 0 .. size - 2, k < chain'[off].size - 1
                 PROVE  mem'[h + k] = mem[h + k]
      BY <1>2, <1>3 DEF Kept
    <3>1. k < need - 1
      BY <2>5, <2>7
    <3>2. h = off + 1
      BY <1>2 DEF HandleAt
    <3>3. h + k \in Payload(chain, off)
      BY <1>3, <1>5, <3>2 DEF Payload
    <3>4. h + k \in Word
      BY <1>1, <1>2, <3>3, PayloadWords
    <3>5. h + k # off /\ h + k # tail
      BY <1>4, <1>5, <2>1, <3>1, <3>2
    <3> QED BY <2>8, <3>4, <3>5
  <2>14. CallKeeps
    BY <1>5, <1>7, <2>12, <2>13, KeepsFrom
  <2> QED BY <2>11, <2>14
<1>9. CASE ~(need >= 2 /\ Splits(size, need))
  <2>1. chain' = chain /\ mem' = mem
    BY <1>2, <1>3, <1>4, <1>9 DEF LocalReAllocShrink
  <2>2. EnoughGiven'
    <3>1. HeaderOf(localRet'.h) = off
      BY <1>2, <1>7
    <3>2. chain'[off].size > words
      BY <1>3, <1>5, <1>6, <2>1
    <3> QED BY <1>7, <3>1, <3>2 DEF EnoughGiven
  <2>3. HeapInv'
    BY <1>1, <1>6, <1>7, <2>1, <2>2, HeapFrom
  <2>4. \A g \in held : SameWords(g)
    BY <2>1 DEF SameWords
  <2>5. Kept(h, h)
    BY <2>4, SameIsKept
  <2>6. CallKeeps
    BY <1>5, <1>7, <2>4, <2>5, KeepsFrom
  <2> QED BY <2>3, <2>6
<1> QED BY <1>8, <1>9

\* A used block and the free one after it made one.
Follows(c, off, after) == after = off + c[off].size

Joined(c, off, after) ==
  [s \in DOMAIN c \ {after} |->
     IF s = off THEN Block(c[off].size + c[after].size, TRUE) ELSE c[s]]

JoinOf(j, c, off, after) ==
  /\ Whole(j) /\ UsedIn(j) = UsedIn(c) \cup {off} /\ DOMAIN j = DOMAIN c \ {after}
  /\ off \in DOMAIN j /\ j[off].size = c[off].size + c[after].size

LEMMA JoinTiles ==
  ASSUME NEW c, Whole(c), NEW off \in DOMAIN c, NEW after \in Free(c), Follows(c, off, after)
  PROVE  JoinOf(Joined(c, off, after), c, off, after)
<1> SUFFICES ASSUME NEW j, j = Joined(c, off, after) PROVE JoinOf(j, c, off, after)
  OBVIOUS
<1>1. /\ off \in Nat /\ c[off].size \in Nat /\ c[off].size >= 2 /\ BASE <= off
      /\ after \in DOMAIN c /\ after \in Nat /\ c[after].size \in Nat /\ c[after].size >= 2
      /\ after = off + c[off].size
      /\ ~c[after].used /\ after + c[after].size <= END /\ after + c[after].size \in DOMAIN c \cup {END}
      /\ \A t \in DOMAIN c : after < t => after + c[after].size <= t
      /\ \A t \in DOMAIN c : off < t => after <= t
  <2>1. after \in DOMAIN c /\ ~c[after].used /\ after = off + c[off].size
    BY DEF Free, Follows
  <2> QED BY <2>1, Apart
<1>2. /\ DOMAIN j = DOMAIN c \ {after} /\ off \in DOMAIN j
      /\ j[off] = Block(c[off].size + c[after].size, TRUE)
      /\ \A s \in DOMAIN j : s # off => j[s] = c[s]
  <2>1. off # after
    BY <1>1
  <2>2. DOMAIN j = DOMAIN c \ {after} /\ off \in DOMAIN j
    BY <2>1, Zenon DEF Joined
  <2>3. \A s \in DOMAIN j :
          j[s] = IF s = off THEN Block(c[off].size + c[after].size, TRUE) ELSE c[s]
    BY <2>2, Zenon DEF Joined
  <2> QED BY <2>2, <2>3
<1>3. /\ j[off].size = c[off].size + c[after].size /\ j[off].used
      /\ j[off] \in HeapBlock /\ off + j[off].size = after + c[after].size
  <2>1. PICK n \in Nat : n = c[off].size + c[after].size /\ 2 <= n /\ n <= END - BASE
                         /\ off + n = after + c[after].size
    <3>1. BASE \in Nat /\ END \in Nat
      BY PlaceFacts
    <3> QED BY <1>1, <3>1
  <2>2. Block(n, TRUE) \in HeapBlock
    BY <2>1 DEF Block, HeapBlock
  <2>3. j[off] = Block(n, TRUE)
    BY <1>2, <2>1
  <2>4. Block(n, TRUE).size = n /\ Block(n, TRUE).used
    BY DEF Block
  <2> QED BY <2>1, <2>2, <2>3, <2>4
<1>4. ASSUME NEW s \in DOMAIN j
      PROVE  /\ j[s] \in HeapBlock /\ s + j[s].size \in DOMAIN j \cup {END}
             /\ \A t \in DOMAIN j : ~(s < t /\ t < s + j[s].size)
  <2>1. \A t \in DOMAIN j : t \in DOMAIN c /\ t # after /\ t \in Nat
    BY <1>2, Apart
  <2>2. CASE s = off
    <3>1. \A t \in DOMAIN j : ~(s < t /\ t < after + c[after].size)
      BY <1>1, <2>1, <2>2
    <3>2. after + c[after].size \in DOMAIN j \cup {END}
      BY <1>1, <1>2
    <3> QED BY <1>3, <2>2, <3>1, <3>2
  <2>3. CASE s # off
    <3>1. /\ j[s] = c[s] /\ c[s] \in HeapBlock /\ s \in Nat /\ c[s].size \in Nat /\ c[s].size >= 2
          /\ s + c[s].size \in DOMAIN c \cup {END}
          /\ \A t \in DOMAIN c : s < t => s + c[s].size <= t
      BY <1>2, <2>1, <2>3, Apart DEF Whole
    <3>2. s + c[s].size # after
      BY <1>1, <2>1, <2>3, <3>1
    <3>3. s + c[s].size \in DOMAIN j \cup {END}
      BY <1>2, <3>1, <3>2
    <3>4. \A t \in DOMAIN j : ~(s < t /\ t < s + c[s].size)
      BY <2>1, <3>1
    <3> QED BY <3>1, <3>3, <3>4
  <2> QED BY <2>2, <2>3
<1>5. BASE \in DOMAIN j /\ DOMAIN j \subseteq Offset
  BY <1>1, <1>2, PlaceFacts DEF Whole, Tiles
<1>6. Whole(j)
  BY <1>4, <1>5 DEF Whole, Tiles
<1>7. UsedIn(j) = UsedIn(c) \cup {off}
  BY <1>1, <1>2, <1>3 DEF UsedIn, Free
<1> QED BY <1>2, <1>3, <1>6, <1>7 DEF JoinOf

\* Looking at the neighbour takes nothing from a block in use.
LEMMA LookedTiles ==
  ASSUME Whole(chain), NEW off \in UsedIn(chain)
  PROVE  /\ Whole(Looked(off)) /\ UsedIn(Looked(off)) = UsedIn(chain)
         /\ DOMAIN Looked(off) \subseteq DOMAIN chain
         /\ \A u \in UsedIn(chain) : Looked(off)[u] = chain[u]
         /\ FreeNext(off) =>
              /\ Neighbour(off) \in Free(Looked(off))
              /\ Looked(off)[Neighbour(off)] =
                   Block(RunEnd(chain, Neighbour(off)) - Neighbour(off), FALSE)
<1>1. CASE FreeNext(off)
  <2>1. PICK n : n = Neighbour(off) /\ n \in Free(chain)
    BY <1>1 DEF FreeNext
  <2>2. /\ Looked(off) = Coalesced(chain, n) /\ {n} \in SUBSET Free(chain)
        /\ Coalesced(chain, n) = Gathered(chain, {n})
        /\ n \in DOMAIN Looked(off)
        /\ Looked(off)[n] = Block(RunEnd(chain, n) - n, FALSE)
    BY <1>1, <2>1, CoalescedGathers DEF Looked
  <2>3. n \in Free(Looked(off))
    BY <2>2 DEF Free, Block
  <2>4. /\ Whole(Gathered(chain, {n})) /\ UsedIn(Gathered(chain, {n})) = UsedIn(chain)
        /\ DOMAIN Gathered(chain, {n}) \subseteq DOMAIN chain
        /\ \A u \in UsedIn(chain) : Gathered(chain, {n})[u] = chain[u]
    BY <2>2, GatherTiles
  <2> QED BY <2>1, <2>2, <2>3, <2>4
<1>2. CASE ~FreeNext(off)
  <2>1. Looked(off) = chain
    BY <1>2 DEF Looked
  <2> QED BY <1>2, <2>1
<1> QED BY <1>1, <1>2

LEMMA GrowKeeps ==
  ASSUME HeapInv, NoLocalWrap, NEW h \in held, NEW words \in Requests, NEW zero \in BOOLEAN,
         LocalReAllocGrow(h, words, zero)
  PROVE  HeapInv' /\ CallKeeps
<1>1. /\ Whole(chain) /\ mem \in Memory /\ held = HandlesOf(UsedIn(chain)) /\ localRet \in Calls
      /\ \A s \in DOMAIN chain : mem[s] = Hdr
      /\ \A g \in held : HeaderOf(g) \in UsedIn(chain) /\ g = HandleAt(HeaderOf(g))
  BY HeapParts
<1>2. PICK off : off = HeaderOf(h) /\ off \in UsedIn(chain) /\ off \in DOMAIN chain /\ h = HandleAt(off)
  BY <1>1 DEF UsedIn
<1>3. PICK size \in Nat : size = chain[off].size /\ size >= 2
  BY <1>1, <1>2, Apart
<1>4. PICK need \in Nat : need = Asked(words) /\ need = words + 1
  BY RequestFacts
<1>5. /\ words \in 0 .. SEG /\ words \in Nat /\ h \in Word /\ h # 0 /\ off \in Nat /\ h = off + 1
  BY <1>1, <1>2, RequestFacts, HandlesAreWords, Apart DEF HandleAt
<1>6. PICK after : after = Neighbour(off) /\ after = off + size /\ after \in Nat
  BY <1>3, <1>5 DEF Neighbour
<1>7. PICK merged : merged = Merged(off)
  OBVIOUS
<1>8. PICK old : old = size - 1
  OBVIOUS
<1>9. PICK c : c = [s \in DOMAIN Looked(off) \ {after} |-> Looked(off)[s]]
  OBVIOUS
<1>10. PICK grown : grown = Carved(c, off, merged, need)
  OBVIOUS
<1>11. PICK m : m = Headed(mem, Written(off, merged, need))
  OBVIOUS
<1>12. /\ words > old /\ FreeNext(off) /\ merged >= need
       /\ chain' = grown
       /\ mem' = IF zero THEN ZeroedWords(m, h + old .. off + grown[off].size - 1) ELSE m
       /\ localRet' = Called("realloc", h, words, h) /\ held' = held
  BY <1>2, <1>3, <1>4, <1>6, <1>7, <1>8, <1>9, <1>10, <1>11 DEF LocalReAllocGrow, Grows
<1>13. localRet' \in Calls /\ localRet'.op = "realloc" /\ localRet'.from = h /\ localRet'.h = h
       /\ localRet'.want = words
  BY <1>5, <1>12 DEF Called, Calls
\* The two blocks are one run of `merged` words.
<1>14. PICK r : r = RunEnd(chain, after)
  OBVIOUS
<1>15. after \in Free(chain) /\ r \in Nat /\ r <= END /\ after < r /\ merged = r - off
  <2>1. after \in Free(chain) /\ after \in DOMAIN chain
    BY <1>6, <1>12 DEF FreeNext, Free
  <2>2. chain[after].size \in Nat /\ chain[after].size >= 2 /\ after + chain[after].size <= r
        /\ r \in Nat /\ r <= END
    BY <1>1, <1>14, <2>1, Apart, Ends
  <2>3. merged = r - off
    BY <1>6, <1>7, <1>14 DEF Merged
  <2> QED BY <1>6, <2>1, <2>2, <2>3
<1>16. PICK L : L = Looked(off)
  OBVIOUS
<1>17. /\ Whole(L) /\ UsedIn(L) = UsedIn(chain) /\ DOMAIN L \subseteq DOMAIN chain
       /\ \A u \in UsedIn(chain) : L[u] = chain[u]
       /\ after \in Free(L) /\ L[after] = Block(r - after, FALSE)
  BY <1>1, <1>2, <1>6, <1>12, <1>14, <1>16, LookedTiles
<1>18. off \in UsedIn(L) /\ off \in DOMAIN L /\ L[off].size = size /\ after = off + L[off].size
       /\ L[off].size + L[after].size = merged /\ merged \in Nat
  <2>1. off \in UsedIn(L) /\ off \in DOMAIN L /\ L[off].size = size
    BY <1>2, <1>3, <1>17 DEF UsedIn
  <2>2. L[after].size = r - after
    BY <1>17 DEF Block
  <2> QED BY <1>3, <1>5, <1>6, <1>15, <2>1, <2>2
<1>19. PICK j : j = Joined(L, off, after)
  OBVIOUS
<1>20. /\ Whole(j) /\ UsedIn(j) = UsedIn(chain) /\ DOMAIN j = DOMAIN L \ {after}
       /\ off \in DOMAIN j /\ j[off].size = merged
  <2>1. /\ Whole(L) /\ off \in DOMAIN L /\ after \in Free(L) /\ Follows(L, off, after)
    BY <1>17, <1>18 DEF Follows
  <2>2. /\ Whole(j) /\ UsedIn(j) = UsedIn(L) \cup {off} /\ DOMAIN j = DOMAIN L \ {after}
        /\ off \in DOMAIN j /\ j[off].size = L[off].size + L[after].size
    <3>1. JoinOf(j, L, off, after)
      BY <1>19, <2>1, JoinTiles
    <3> QED BY <3>1 DEF JoinOf
  <2> QED BY <1>2, <1>17, <1>18, <2>2
<1>21. grown = Carved(j, off, merged, need)
  <2>1. DOMAIN c = DOMAIN j /\ \A s \in DOMAIN j : s # off => c[s] = j[s]
    BY <1>9, <1>16, <1>19 DEF Joined
  <2>2. c = [s \in DOMAIN c |-> c[s]] /\ j = [s \in DOMAIN j |-> j[s]]
    BY <1>9, <1>19 DEF Joined
  <2>3. CASE Splits(merged, need)
    <3>1. [s \in DOMAIN c \cup {off + need} |->
             IF s = off THEN Block(need, TRUE)
             ELSE IF s = off + need THEN Block(merged - need, FALSE)
             ELSE c[s]]
          = [s \in DOMAIN j \cup {off + need} |->
               IF s = off THEN Block(need, TRUE)
               ELSE IF s = off + need THEN Block(merged - need, FALSE)
               ELSE j[s]]
      BY <2>1
    <3> QED BY <1>10, <2>3, <3>1 DEF Carved
  <2>4. CASE ~Splits(merged, need)
    <3>1. [c EXCEPT ![off] = Block(merged, TRUE)] = [j EXCEPT ![off] = Block(merged, TRUE)]
      BY <2>1, <2>2
    <3> QED BY <1>10, <2>4, <3>1 DEF Carved
  <2> QED BY <2>3, <2>4
<1>22. /\ Whole(grown) /\ UsedIn(grown) = UsedIn(chain)
       /\ DOMAIN grown \subseteq DOMAIN j \cup Written(off, merged, need)
       /\ off \in DOMAIN grown /\ need <= grown[off].size /\ grown[off].size <= merged
  <2>1. 2 <= need /\ need <= merged
    BY <1>3, <1>4, <1>5, <1>8, <1>12, <1>18
  <2>2. /\ Whole(j) /\ off \in DOMAIN j /\ merged \in Nat /\ j[off].size = merged
        /\ need \in Nat /\ 2 <= need /\ need <= merged
    BY <1>18, <1>20, <2>1
  <2>3. /\ Whole(grown) /\ UsedIn(grown) = UsedIn(j) \cup {off}
        /\ DOMAIN grown \subseteq DOMAIN j \cup Written(off, merged, need)
        /\ off \in DOMAIN grown /\ need <= grown[off].size /\ grown[off].size <= merged
    BY <1>21, <2>2, CarveTiles, SMTT(60)
  <2> QED BY <1>2, <1>20, <2>3
<1>23. PICK gs \in Nat : gs = grown[off].size /\ gs <= merged /\ need <= gs
  BY <1>22, Apart
\* What it writes lies in the run that follows the block's words.
<1>24. PICK hs : hs = Written(off, merged, need)
  OBVIOUS
<1>25. \A w \in hs : w = off \/ (after < w /\ w < r)
  <2>1. need > size /\ merged \in Nat /\ merged = r - off
    BY <1>3, <1>4, <1>5, <1>8, <1>12, <1>15, <1>18
  <2>2. merged >= need + 2 => after < off + need /\ off + need < r
    BY <1>3, <1>5, <1>6, <1>15, <2>1
  <2>3. \A w \in hs : w = off \/ (w = off + need /\ merged >= need + 2)
    BY <1>24, Zenon DEF Written, Splits
  <2> QED BY <2>2, <2>3
<1>26. PICK ws : ws = h + old .. off + gs - 1
  OBVIOUS
<1>27. \A w \in ws : w \in Nat /\ after <= w /\ w < r /\ w \in Payload(grown, off)
  <2>1. h + old = after /\ off + gs - 1 < r /\ off + gs - 1 \in Int
    BY <1>3, <1>5, <1>6, <1>8, <1>15, <1>18, <1>23
  <2>2. \A w \in ws : w \in Int /\ after <= w /\ w <= off + gs - 1
    BY <1>6, <1>26, <2>1
  <2>3. \A w \in ws : w \in Nat /\ w < r /\ off + 1 <= w
    BY <1>3, <1>5, <1>6, <1>15, <2>1, <2>2
  <2>4. Payload(grown, off) = off + 1 .. off + gs - 1
    BY <1>23 DEF Payload
  <2> QED BY <1>5, <1>23, <2>2, <2>3, <2>4
<1>28. m \in Memory /\ \A w \in Word : m[w] = IF w \in hs THEN Hdr ELSE mem[w]
  BY <1>1, <1>11, <1>24, HeadedWords
<1>29. PICK z : z = ZeroedWords(m, ws)
  OBVIOUS
<1>30. z \in Memory /\ \A w \in Word : z[w] = IF w \in ws THEN 0 ELSE m[w]
  BY <1>28, <1>29, ZeroWords
<1>31. mem' = IF zero THEN z ELSE m
  BY <1>12, <1>23, <1>26, <1>29
<1>32. \A s \in DOMAIN chain' : mem'[s] = Hdr
  <2> SUFFICES ASSUME NEW s \in DOMAIN grown PROVE mem'[s] = Hdr
    BY <1>12
  <2>1. s \in Word /\ s \notin ws
    BY <1>22, <1>27, PayloadWords, PlaceFacts DEF Whole
  <2>2. s \in hs \/ s \in DOMAIN chain
    BY <1>17, <1>20, <1>22, <1>24
  <2> QED BY <1>1, <1>28, <1>30, <1>31, <2>1, <2>2
<1>33. EnoughGiven'
  <2>1. HeaderOf(localRet'.h) = off
    BY <1>2, <1>13
  <2>2. chain'[off].size > words
    BY <1>4, <1>5, <1>12, <1>23
  <2> QED BY <1>13, <2>1, <2>2 DEF EnoughGiven
<1>34. HeapInv'
  <2>1. Whole(chain') /\ mem' \in Memory /\ held' = HandlesOf(UsedIn(chain'))
    BY <1>1, <1>12, <1>22, <1>28, <1>30, <1>31
  <2> QED BY <1>13, <1>32, <1>33, <2>1, HeapFrom
<1>35. \A g \in held : SameWords(g)
  <2> SUFFICES ASSUME NEW g \in held, NEW w \in Payload(chain, HeaderOf(g)) PROVE mem'[w] = mem[w]
    BY DEF SameWords
  <2>1. PICK u : u = HeaderOf(g) /\ u \in UsedIn(chain) /\ u \in DOMAIN chain
    BY <1>1 DEF UsedIn
  <2>2. w \in Word /\ w \in Nat /\ w \notin DOMAIN chain
    BY <1>1, <2>1, PayloadWords
  <2>3. w < after \/ r <= w
    BY <1>1, <1>14, <1>15, <2>1, PayloadApart
  <2>4. w \notin hs /\ w \notin ws
    BY <1>2, <1>6, <1>15, <1>25, <1>27, <2>2, <2>3
  <2> QED BY <1>28, <1>30, <1>31, <2>2, <2>4
<1>36. Kept(h, h)
  BY <1>35, SameIsKept
<1>37. CallKeeps
  BY <1>5, <1>13, <1>35, <1>36, KeepsFrom
<1> QED BY <1>34, <1>37

Words(from, n) == \A k \in 0 .. n - 1 : from + k \in Word

CopyOf(d, m, from, to, n) ==
  /\ d \in Memory
  /\ \A w \in Word : ~(to <= w /\ w < to + n) => d[w] = m[w]
  /\ \A k \in 0 .. n - 1 : to + k \in Word => d[to + k] = m[from + k]

LEMMA CopyWords ==
  ASSUME NEW m \in Memory, NEW from \in Nat, NEW to \in Nat, NEW n \in Nat, Words(from, n)
  PROVE  CopyOf(CopiedWords(m, from, to, n), m, from, to, n)
<1> DEFINE d == CopiedWords(m, from, to, n)
<1>1. DOMAIN m = Word /\ DOMAIN d = Word
  BY DEF CopiedWords, Memory
<1>2. \A w \in Word : d[w] = IF w \in to .. to + n - 1 THEN m[from + (w - to)] ELSE m[w]
  BY <1>1 DEF CopiedWords
<1>3. \A w \in Word : w \in Nat
  BY PlaceFacts DEF Word
<1>4. \A w \in Word : w \in to .. to + n - 1 <=> to <= w /\ w < to + n
  BY <1>3
<1>5. \A w \in Word : to <= w /\ w < to + n => from + (w - to) \in Word
  <2> SUFFICES ASSUME NEW w \in Word, to <= w, w < to + n PROVE from + (w - to) \in Word
    OBVIOUS
  <2>1. w - to \in 0 .. n - 1
    BY <1>3
  <2> QED BY <2>1 DEF Words
<1>6. \A w \in Word : d[w] \in Values
  BY <1>2, <1>4, <1>5 DEF Memory
<1>7. d = [w \in Word |-> d[w]]
  BY <1>1 DEF CopiedWords
<1> HIDE DEF d
<1>8. d \in Memory
  BY <1>6, <1>7 DEF Memory
<1>9. \A w \in Word : ~(to <= w /\ w < to + n) => d[w] = m[w]
  BY <1>2, <1>4
<1>10. \A k \in 0 .. n - 1 : to + k \in Word => d[to + k] = m[from + k]
  <2> SUFFICES ASSUME NEW k \in 0 .. n - 1, to + k \in Word PROVE d[to + k] = m[from + k]
    OBVIOUS
  <2>1. to + k \in to .. to + n - 1 /\ from + ((to + k) - to) = from + k
    OBVIOUS
  <2> QED BY <1>2, <2>1
<1>11. CopyOf(d, m, from, to, n)
  BY <1>8, <1>9, <1>10 DEF CopyOf
<1> QED BY <1>11 DEF d

LEMMA MoveKeeps ==
  ASSUME HeapInv, NoLocalWrap, NEW h \in held, NEW words \in Requests, NEW zero \in BOOLEAN,
         LocalReAllocMove(h, words, zero)
  PROVE  HeapInv' /\ CallKeeps
<1>1. /\ Whole(chain) /\ mem \in Memory /\ held = HandlesOf(UsedIn(chain)) /\ localRet \in Calls
      /\ \A s \in DOMAIN chain : mem[s] = Hdr
      /\ \A g \in held : HeaderOf(g) \in UsedIn(chain) /\ g = HandleAt(HeaderOf(g))
  BY HeapParts
<1>2. PICK off : off = HeaderOf(h) /\ off \in UsedIn(chain) /\ off \in DOMAIN chain /\ h = HandleAt(off)
  BY <1>1 DEF UsedIn
<1>3. PICK size \in Nat : size = chain[off].size /\ size >= 2
  BY <1>1, <1>2, Apart
<1>4. /\ words \in 0 .. SEG /\ words \in Nat /\ h \in Word /\ h # 0 /\ off \in Nat /\ h = off + 1
      /\ 0 \in Word
  BY <1>1, <1>2, RequestFacts, HandlesAreWords, Apart DEF HandleAt
<1>5. PICK c : c = Looked(off)
  OBVIOUS
<1>6. /\ Whole(c) /\ UsedIn(c) = UsedIn(chain) /\ DOMAIN c \subseteq DOMAIN chain
      /\ \A u \in UsedIn(chain) : c[u] = chain[u]
  BY <1>1, <1>2, <1>5, LookedTiles
<1>7. words > size - 1
  BY <1>2, <1>3 DEF LocalReAllocMove
<1>8. words + 1 <= Need(words) /\ Need(words) \in Nat
  BY RequestFacts, NeedFacts
\* The blocks in use have the same words in c as in chain.
<1>9. \A u \in UsedIn(chain) : Payload(c, u) = Payload(chain, u)
  BY <1>6 DEF Payload
<1>10. ASSUME NEW new \in Free(c), FirstRoom(c, Need(words), new),
              chain' = Returned(Given(c, new, words), off),
              mem' = CopiedWords(GivenMem(c, mem, new, words, zero), h, HandleAt(new), size - 1),
              held' = (held \ {h}) \cup {HandleAt(new)},
              localRet' = Called("realloc", h, words, HandleAt(new))
       PROVE  HeapInv' /\ CallKeeps
  <2>1. PICK g : g = Given(c, new, words)
    OBVIOUS
  <2>2. PICK r : r = RunEnd(c, new)
    OBVIOUS
  <2>3. /\ new \in Nat /\ r \in Nat /\ new + 2 <= r /\ r <= END
        /\ Whole(g) /\ UsedIn(g) = UsedIn(c) \cup {new}
        /\ \A u \in UsedIn(c) : g[u] = c[u]
        /\ new \in DOMAIN g /\ Need(words) <= g[new].size /\ g[new].size <= r - new
    BY <1>4, <1>6, <1>10, <2>1, <2>2, GivenTiles
  <2>4. PICK gs \in Nat : gs = g[new].size /\ words + 1 <= gs /\ size < gs /\ new + gs <= r
    <3>1. g[new].size \in Nat
      BY <2>3, Apart
    <3> QED BY <1>3, <1>4, <1>7, <1>8, <2>3, <3>1
  <2>5. new # off /\ off \in UsedIn(g) /\ new \in UsedIn(g)
    BY <1>2, <1>6, <1>10, <2>3 DEF UsedIn
  <2>6. /\ Whole(chain') /\ UsedIn(chain') = (UsedIn(chain) \cup {new}) \ {off}
        /\ DOMAIN chain' \subseteq DOMAIN g /\ chain'[new] = g[new] /\ new \in DOMAIN chain'
    <3>1. chain' = Returned(g, off)
      BY <1>10, <2>1
    <3>2. /\ Whole(Returned(g, off)) /\ UsedIn(Returned(g, off)) = UsedIn(g) \ {off}
          /\ DOMAIN Returned(g, off) \subseteq DOMAIN g
          /\ \A u \in UsedIn(g) : u # off => Returned(g, off)[u] = g[u]
      BY <2>3, <2>5, ReturnTiles
    <3>3. new \in UsedIn(chain')
      BY <2>5, <3>1, <3>2
    <3> QED BY <1>6, <2>3, <2>5, <3>1, <3>2, <3>3 DEF UsedIn
  <2>7. PICK m : m = GivenMem(c, mem, new, words, zero)
    OBVIOUS
  <2>8. /\ m \in Memory /\ \A w \in Word : w < new \/ r <= w => m[w] = mem[w]
        /\ \A s \in DOMAIN g : m[s] = Hdr
    <3>1. \A s \in DOMAIN c : mem[s] = Hdr
      BY <1>1, <1>6
    <3> QED BY <1>1, <1>4, <1>6, <1>10, <2>1, <2>2, <2>7, <3>1, GivenWords
  <2>9. PICK to \in Nat : to = HandleAt(new) /\ to = new + 1 /\ HeaderOf(to) = new /\ to \in Word /\ to # 0
    BY <2>3, HandlesAreWords DEF HandleAt
  \* A block in use is not in the run the new one is cut from.
  <2>10. \A u \in UsedIn(chain) : \A w \in Payload(chain, u) :
           w \in Word /\ w \in Nat /\ (w < new \/ r <= w) /\ m[w] = mem[w]
    <3> SUFFICES ASSUME NEW u \in UsedIn(chain), NEW w \in Payload(chain, u)
                 PROVE  w \in Word /\ w \in Nat /\ (w < new \/ r <= w) /\ m[w] = mem[w]
      OBVIOUS
    <3>1. w \in Payload(c, u) /\ u \in UsedIn(c)
      BY <1>6, <1>9
    <3>2. w \in Word /\ w \in Nat
      BY <1>6, <3>1, PayloadWords DEF UsedIn
    <3>3. w < new \/ r <= w
      BY <1>6, <1>10, <2>2, <3>1, PayloadApart
    <3> QED BY <2>8, <3>2, <3>3
  <2>11. \A k \in 0 .. size - 2 : h + k \in Payload(chain, off)
    BY <1>3, <1>4 DEF Payload
  <2>12. \A k \in 0 .. size - 2 : h + k \in Word /\ m[h + k] = mem[h + k]
    BY <1>2, <2>10, <2>11
  <2>13. PICK n \in Nat : n = size - 1 /\ 0 .. n - 1 = 0 .. size - 2
    BY <1>3
  <2>14. /\ mem' \in Memory
         /\ \A w \in Word : ~(to <= w /\ w < to + n) => mem'[w] = m[w]
         /\ \A k \in 0 .. n - 1 : to + k \in Word => mem'[to + k] = m[h + k]
    <3>1. m \in Memory /\ h \in Nat /\ to \in Nat /\ n \in Nat
      BY <1>4, <2>8, <2>9, <2>13
    <3>2. Words(h, n)
      BY <2>12, <2>13 DEF Words
    <3>3. mem' = CopiedWords(m, h, to, n)
      BY <1>10, <2>7, <2>9, <2>13
    <3>4. CopyOf(mem', m, h, to, n)
      BY <3>1, <3>2, <3>3, CopyWords
    <3> QED BY <3>4 DEF CopyOf
  <2>15. to + n < new + gs /\ to + n < r /\ new < to
    <3>1. new \in Nat /\ r \in Nat
      BY <2>3
    <3>2. to + n = new + size
      <4>1. to = new + 1 /\ n = size - 1
        BY <2>9, <2>13
      <4> QED BY <1>3, <3>1, <4>1
    <3> QED BY <1>3, <2>4, <2>9, <3>1, <3>2
  <2>16. \A s \in DOMAIN chain' : mem'[s] = Hdr
    <3> SUFFICES ASSUME NEW s \in DOMAIN chain' PROVE mem'[s] = Hdr
      OBVIOUS
    <3>1. s \in DOMAIN g /\ s \in Word /\ s \in Nat
      BY <2>3, <2>6, Apart, PlaceFacts DEF Whole
    <3>2. new < s => new + gs <= s
      BY <2>3, <2>4, <3>1, Apart
    <3>3. ~(to <= s /\ s < to + n)
      BY <2>3, <2>4, <2>9, <2>13, <2>15, <3>1, <3>2
    <3> QED BY <2>8, <2>14, <3>1, <3>3
  <2>17. held' = HandlesOf(UsedIn(chain'))
    <3>1. \A u \in UsedIn(chain) : u \in Nat
      BY <1>1, Apart DEF UsedIn
    <3>2. \A u \in UsedIn(chain) \cup {new} : HandleAt(u) = h <=> u = off
      BY <1>4, <2>3, <3>1 DEF HandleAt
    <3>3. HandlesOf((UsedIn(chain) \cup {new}) \ {off}) = (HandlesOf(UsedIn(chain)) \ {h}) \cup {HandleAt(new)}
      BY <2>5, <3>2, ZenonT(60) DEF HandlesOf
    <3> QED BY <1>1, <1>10, <2>6, <3>3
  <2>18. localRet' \in Calls /\ localRet'.op = "realloc" /\ localRet'.from = h /\ localRet'.h = to
         /\ localRet'.want = words
    BY <1>4, <1>10, <2>9 DEF Called, Calls
  <2>19. EnoughGiven'
    <3>1. chain'[new].size > words
      BY <1>4, <2>4, <2>6
    <3> QED BY <2>9, <2>18, <3>1 DEF EnoughGiven
  <2>20. HeapInv'
    BY <2>6, <2>14, <2>16, <2>17, <2>18, <2>19, HeapFrom
  <2>21. \A b \in held : SameWords(b)
    <3> SUFFICES ASSUME NEW b \in held, NEW w \in Payload(chain, HeaderOf(b)) PROVE mem'[w] = mem[w]
      BY DEF SameWords
    <3>1. w \in Word /\ w \in Nat /\ (w < new \/ r <= w) /\ m[w] = mem[w]
      BY <1>1, <2>10
    <3>2. ~(to <= w /\ w < to + n)
      BY <2>3, <2>9, <2>13, <2>15, <3>1
    <3> QED BY <2>14, <3>1, <3>2
  <2>22. Kept(h, to)
    <3> SUFFICES ASSUME NEW k \in 0 .. size - 2 PROVE mem'[to + k] = mem[h + k]
      BY <1>2, <1>3 DEF Kept
    <3>1. to + k \in Word
      <4>1. to + k < r /\ to + k \in Nat
        BY <2>3, <2>9, <2>13, <2>15
      <4> QED BY <2>3, <4>1, PlaceFacts DEF Word
    <3> QED BY <2>12, <2>13, <2>14, <3>1
  <2>23. CallKeeps
    BY <2>9, <2>18, <2>21, <2>22, KeepsFrom
  <2> QED BY <2>20, <2>23
<1>11. ASSUME chain' = Tidied(c, END), localRet' = Called("realloc", h, words, 0),
              UNCHANGED <<mem, held>>
       PROVE  HeapInv' /\ CallKeeps
  <2>1. /\ Whole(chain') /\ UsedIn(chain') = UsedIn(chain) /\ DOMAIN chain' \subseteq DOMAIN chain
    BY <1>6, <1>11, TidyKeeps
  <2>2. mem' = mem /\ held' = held /\ localRet'.h = 0 /\ localRet'.op = "realloc" /\ localRet' \in Calls
    BY <1>4, <1>11 DEF Called, Calls
  <2>3. EnoughGiven'
    BY <2>2 DEF EnoughGiven
  <2>4. HeapInv'
    BY <1>1, <2>1, <2>2, <2>3, HeapFrom
  <2>5. \A b \in held : SameWords(b)
    BY <2>2 DEF SameWords
  <2>6. CallKeeps
    BY <2>2, <2>5, KeepsFrom
  <2> QED BY <2>4, <2>6
<1> QED BY <1>2, <1>3, <1>5, <1>10, <1>11 DEF LocalReAllocMove

-----------------------------------------------------------------------------
(* The heap from lmem_init on.                                              *)

LEMMA InitIsWhole == LocalInit => HeapInv
<1> SUFFICES ASSUME LocalInit PROVE HeapInv
  OBVIOUS
<1>1. DOMAIN chain = {BASE} /\ chain[BASE] = Block(END - BASE, FALSE)
  BY DEF LocalInit
<1>2. chain[BASE].size = END - BASE /\ ~chain[BASE].used /\ chain[BASE] \in HeapBlock
  BY <1>1, PlaceFacts DEF Block, HeapBlock
<1>3. BASE \in Offset /\ BASE \in Word /\ 0 \in Word
  BY PlaceFacts DEF Offset, Word
<1>4. mem \in Memory /\ mem[BASE] = Hdr
  BY <1>3 DEF LocalInit, Memory, Values
<1>5. localRet \in Calls /\ localRet.op = "init"
  BY <1>3, PlaceFacts DEF LocalInit, Called, Calls
<1>6. held = {} /\ Free(chain) = DOMAIN chain
  BY <1>1, <1>2 DEF LocalInit, Free
<1>7. LocalTypeOK
  <2>1. \A off \in DOMAIN chain : chain[off] \in [size : 2 .. END - BASE, used : BOOLEAN]
    BY <1>1, <1>2 DEF HeapBlock
  <2>2. DOMAIN chain \subseteq Offset /\ held \subseteq Word
    BY <1>1, <1>3, <1>6
  <2> QED BY <1>4, <1>5, <2>1, <2>2 DEF LocalTypeOK, Memory, Values, Calls
<1>8. ChainTiles
  <2>1. BASE + chain[BASE].size = END
    BY <1>2, PlaceFacts
  <2>2. BASE \in DOMAIN chain /\ \A off \in DOMAIN chain : off = BASE
    BY <1>1
  <2>3. \A off \in DOMAIN chain :
          /\ off + chain[off].size \in DOMAIN chain \cup {END}
          /\ \A s \in DOMAIN chain : ~(off < s /\ s < off + chain[off].size)
    BY <2>1, <2>2, PlaceFacts
  <2> QED BY <2>2, <2>3 DEF ChainTiles, Tiles
<1>9. UsedAreHeld /\ HeadersIntact /\ EnoughGiven
  BY <1>1, <1>4, <1>5, <1>6 DEF UsedAreHeld, HeadersIntact, EnoughGiven
<1> QED BY <1>7, <1>8, <1>9 DEF HeapInv

LEMMA StepIsWhole ==
  NoLocalWrap /\ HeapInv /\ [LocalNext]_localVars => HeapInv' /\ [CallKeeps]_localVars
<1> SUFFICES ASSUME NoLocalWrap, HeapInv, [LocalNext]_localVars
             PROVE  HeapInv' /\ [CallKeeps]_localVars
  OBVIOUS
<1>1. CASE LocalNext
  <2>1. ASSUME NEW words \in Requests, NEW zero \in BOOLEAN, LocalAlloc(words, zero)
        PROVE  HeapInv' /\ CallKeeps
    BY <2>1, AllocKeeps
  <2>2. ASSUME NEW h \in held, LocalFree(h)
        PROVE  HeapInv' /\ CallKeeps
    BY <2>2, FreeKeeps
  <2>3. ASSUME NEW h \in held, NEW words \in Requests, LocalReAllocShrink(h, words)
        PROVE  HeapInv' /\ CallKeeps
    BY <2>3, ShrinkKeeps
  <2>4. ASSUME NEW h \in held, NEW words \in Requests, NEW zero \in BOOLEAN,
               LocalReAllocGrow(h, words, zero)
        PROVE  HeapInv' /\ CallKeeps
    BY <2>4, GrowKeeps
  <2>5. ASSUME NEW h \in held, NEW words \in Requests, NEW zero \in BOOLEAN,
               LocalReAllocMove(h, words, zero)
        PROVE  HeapInv' /\ CallKeeps
    BY <2>5, MoveKeeps
  <2>6. ASSUME NEW h \in held, NEW w \in Word, NEW b \in Stores, LocalStore(h, w, b)
        PROVE  HeapInv' /\ CallKeeps
    BY <2>6, StoreKeeps
  <2> QED BY <1>1, <2>1, <2>2, <2>3, <2>4, <2>5, <2>6 DEF LocalNext
<1>2. CASE UNCHANGED localVars
  BY <1>2 DEF localVars, HeapInv, LocalTypeOK, ChainTiles, UsedAreHeld, HeadersIntact, EnoughGiven
<1> QED BY <1>1, <1>2

(* heap.c's lmem_alloc, lmem_free and lmem_realloc keep the local heap     *)
(* whole, whatever the order of calls: the blocks tile it, the used ones   *)
(* are those the program holds, no header is overwritten, a block has room *)
(* for what was asked, and no call disturbs the words of a block that      *)
(* stays or loses those of one that moves.  For every heap and every set   *)
(* of requests that do not wrap with their header in sixteen bits; the     *)
(* rounding in heap.c does not look for that.                              *)
THEOREM LocalHeapAlwaysKept == NoLocalWrap /\ LocalSpec => LocalHeapKept
<1> SUFFICES ASSUME NoLocalWrap PROVE LocalSpec => LocalHeapKept
  OBVIOUS
<1>1. LocalInit => HeapInv
  BY InitIsWhole
<1>2. HeapInv /\ [LocalNext]_localVars => HeapInv'
  BY StepIsWhole
<1>3. HeapInv /\ [LocalNext]_localVars =>
        [\A h \in held :
           localRet'.op # "store" =>
             IF localRet'.op \in {"free", "realloc"} /\ localRet'.from = h /\ localRet'.h # 0
             THEN Kept(h, localRet'.h)
             ELSE h \in held' => Kept(h, h)]_localVars
  BY StepIsWhole DEF CallKeeps
<1>4. HeapInv => LocalTypeOK /\ ChainTiles /\ UsedAreHeld /\ HeadersIntact /\ EnoughGiven
  BY DEF HeapInv
<1> QED BY <1>1, <1>2, <1>3, <1>4, PTL DEF LocalSpec, LocalHeapKept, WordsKept
-----------------------------------------------------------------------------
(* The handle table: lists linked through hnext, as the sets they hold.     *)

\* nx leads from start through f[1], ..., f[n], each once, to 0.
ListIn(nx, start, n, f) ==
  /\ f \in [1 .. n -> Entries]
  /\ \A i, j \in 1 .. n : f[i] = f[j] => i = j
  /\ start = IF n = 0 THEN 0 ELSE f[1]
  /\ \A i \in 1 .. n : nx[f[i]] = IF i = n THEN 0 ELSE f[i + 1]

IsList(nx, start, S) ==
  \E n \in Nat : \E f \in [1 .. n -> Entries] :
    ListIn(nx, start, n, f) /\ S = {f[i] : i \in 1 .. n}

Links(t) == [h \in Entries |-> t.tab[h].hnext]

LEMMA TableFacts ==
  /\ FIRST_HANDLE \in Nat /\ FIRST_HANDLE >= 1 /\ MAX_HANDLES \in Nat /\ FIRST_HANDLE < MAX_HANDLES
  /\ Entries \subseteq Nat /\ 0 \notin Entries
  /\ IsFiniteSet(Entries) /\ Cardinality(Entries) = MAX_HANDLES - FIRST_HANDLE
<1>1. FIRST_HANDLE \in Nat /\ FIRST_HANDLE >= 1 /\ MAX_HANDLES \in Nat /\ FIRST_HANDLE < MAX_HANDLES
  BY TableAssumption
<1>2. Entries \subseteq Nat /\ 0 \notin Entries
  BY <1>1 DEF Entries
<1>3. PICK top \in Int : top = MAX_HANDLES - 1
  BY <1>1
<1>4. IsFiniteSet(FIRST_HANDLE .. top)
      /\ Cardinality(FIRST_HANDLE .. top) = IF FIRST_HANDLE > top THEN 0 ELSE top - FIRST_HANDLE + 1
  BY <1>1, <1>3, FS_Interval
<1> QED BY <1>1, <1>2, <1>3, <1>4 DEF Entries

\* A list is no longer than the table.
LEMMA ListBound ==
  ASSUME NEW nx, NEW start, NEW n \in Nat, NEW f, ListIn(nx, start, n, f)
  PROVE  n <= MAX_HANDLES - FIRST_HANDLE
<1>1. IsFiniteSet(1 .. n) /\ Cardinality(1 .. n) = n
  BY FS_Interval
<1>2. f \in [1 .. n -> Entries] /\ \A x, y \in 1 .. n : f[x] = f[y] => x = y
  BY DEF ListIn
<1>3. ~(Cardinality(Entries) < Cardinality(1 .. n))
  BY <1>1, <1>2, TableFacts, FS_PigeonHole
<1> QED BY <1>1, <1>3, TableFacts

\* The walk along a list meets what it holds.
LEMMA WalkIsList ==
  ASSUME NEW t, NEW start, NEW S, IsList(Links(t), start, S)
  PROVE  Walk(t, start) = S
<1>0. PICK n \in Nat : \E f \in [1 .. n -> Entries] :
        ListIn(Links(t), start, n, f) /\ S = {f[i] : i \in 1 .. n}
  BY DEF IsList
<1>1. PICK f \in [1 .. n -> Entries] :
        ListIn(Links(t), start, n, f) /\ S = {f[i] : i \in 1 .. n}
  BY <1>0
<1>2. n < MAX_HANDLES
  BY <1>1, ListBound, TableFacts
<1>3. /\ \A i \in 1 .. n : f[i] \in Entries /\ f[i] # 0
      /\ start = IF n = 0 THEN 0 ELSE f[1]
      /\ \A i \in 1 .. n : t.tab[f[i]].hnext = IF i = n THEN 0 ELSE f[i + 1]
  <2>1. \A i \in 1 .. n : f[i] \in Entries /\ f[i] # 0
    BY TableFacts
  <2>2. \A h \in Entries : Links(t)[h] = t.tab[h].hnext
    BY DEF Links
  <2> QED BY <1>1, <2>1, <2>2 DEF ListIn
<1> DEFINE N == 0 .. MAX_HANDLES
           Def(g) == [k \in N |-> IF k = 0 THEN start
                                  ELSE IF g[k - 1] = 0 THEN 0 ELSE t.tab[g[k - 1]].hnext]
           at == CHOOSE g : g = Def(g)
           w == [k \in N |-> IF k < n THEN f[k + 1] ELSE 0]
<1>4. \A k \in N : k \in Nat /\ (k # 0 => k - 1 \in N)
  BY TableFacts
<1>5. \A k \in N : w[k] = Def(w)[k]
  <2> SUFFICES ASSUME NEW k \in N PROVE w[k] = Def(w)[k]
    OBVIOUS
  <2>1. CASE k = 0
    BY <1>3, <2>1
  <2>2. CASE k # 0 /\ k - 1 < n
    <3>1. k \in 1 .. n /\ k - 1 \in N /\ w[k - 1] = f[k] /\ k \in Nat
      BY <1>4, <2>2
    <3>2. w[k] = IF k = n THEN 0 ELSE f[k + 1]
      BY <3>1
    <3> QED BY <1>3, <2>2, <3>1, <3>2
  <2>3. CASE k # 0 /\ ~(k - 1 < n)
    BY <1>4, <2>3
  <2> QED BY <2>1, <2>2, <2>3
<1>6. w = Def(w)
  BY <1>5
<1>7. at = Def(at)
  <2> HIDE DEF Def
  <2> QED BY <1>6
<1>8. Walk(t, start) = {at[k] : k \in N} \ {0}
  BY DEF Walk
<1>9. \A k \in N : at[k] = IF k = 0 THEN start
                           ELSE IF at[k - 1] = 0 THEN 0 ELSE t.tab[at[k - 1]].hnext
  <2> HIDE DEF at
  <2> QED BY <1>7
<1>10. \A k \in N : w[k] = IF k = 0 THEN start
                           ELSE IF w[k - 1] = 0 THEN 0 ELSE t.tab[w[k - 1]].hnext
  <2> HIDE DEF w
  <2> QED BY <1>6
<1> HIDE DEF at
<1>11. \A k \in N : at[k] = w[k]
  <2> SUFFICES ASSUME {k \in N : at[k] # w[k]} # {} PROVE FALSE
    OBVIOUS
  <2> DEFINE B == {k \in N : at[k] # w[k]}
  <2>1. B \in SUBSET Nat
    BY <1>4
  <2>2. PICK x \in B : \A y \in B : x <= y
    BY <2>1, LeastOf
  <2>3. x \in N /\ at[x] # w[x] /\ x \in Nat
    BY <1>4
  <2>4. x # 0 => x - 1 \in N /\ at[x - 1] = w[x - 1]
    BY <1>4, <2>2, <2>3
  <2> HIDE DEF w
  <2> QED BY <1>9, <1>10, <2>3, <2>4
<1>12. {w[k] : k \in N} \ {0} = S
  <2>1. ASSUME NEW k \in N, w[k] # 0 PROVE w[k] \in S
    <3>1. k < n /\ w[k] = f[k + 1] /\ k + 1 \in 1 .. n
      BY <1>4, <2>1
    <3> QED BY <1>1, <3>1
  <2>2. ASSUME NEW i \in 1 .. n PROVE i - 1 \in N /\ w[i - 1] = f[i] /\ f[i] # 0
    BY <1>2, <1>3, TableFacts
  <2> HIDE DEF w
  <2> QED BY <1>1, <2>1, <2>2
<1> QED BY <1>8, <1>11, <1>12

\* A list stays where its links do.
LEMMA ListFrame ==
  ASSUME NEW nx, NEW ny, NEW start, NEW S, IsList(nx, start, S), \A h \in S : ny[h] = nx[h]
  PROVE  IsList(ny, start, S)
<1>0. PICK n \in Nat : \E f \in [1 .. n -> Entries] :
        ListIn(nx, start, n, f) /\ S = {f[i] : i \in 1 .. n}
  BY DEF IsList
<1>1. PICK f \in [1 .. n -> Entries] :
        ListIn(nx, start, n, f) /\ S = {f[i] : i \in 1 .. n}
  BY <1>0
<1>2. ListIn(ny, start, n, f)
  BY <1>1 DEF ListIn
<1> QED BY <1>1, <1>2 DEF IsList

LEMMA EmptyList ==
  ASSUME NEW nx PROVE IsList(nx, 0, {})
<1>1. [i \in 1 .. 0 |-> FIRST_HANDLE] \in [1 .. 0 -> Entries]
  OBVIOUS
<1>2. ListIn(nx, 0, 0, [i \in 1 .. 0 |-> FIRST_HANDLE])
  BY DEF ListIn
<1>3. {[i \in 1 .. 0 |-> FIRST_HANDLE][k] : k \in 1 .. 0} = {}
  OBVIOUS
<1> QED BY <1>1, <1>2, <1>3 DEF IsList

\* What a list starts with, and what follows what it holds, is its own.
LEMMA ListClosed ==
  ASSUME NEW nx, NEW start, NEW S, IsList(nx, start, S)
  PROVE  /\ S \subseteq Entries
         /\ start \in S \cup {0} /\ (start = 0 <=> S = {})
         /\ \A h \in S : nx[h] \in S \cup {0} /\ nx[h] # h /\ nx[h] # start
         /\ \A g, h \in S : nx[g] = nx[h] /\ nx[g] # 0 => g = h
         /\ \A h \in S : h # start => \E p \in S : nx[p] = h
<1>0. PICK n \in Nat : \E f \in [1 .. n -> Entries] :
        ListIn(nx, start, n, f) /\ S = {f[i] : i \in 1 .. n}
  BY DEF IsList
<1>1. PICK f \in [1 .. n -> Entries] :
        ListIn(nx, start, n, f) /\ S = {f[i] : i \in 1 .. n}
  BY <1>0
<1>2. /\ \A i, j \in 1 .. n : f[i] = f[j] => i = j
      /\ start = IF n = 0 THEN 0 ELSE f[1]
      /\ \A i \in 1 .. n : nx[f[i]] = IF i = n THEN 0 ELSE f[i + 1]
  BY <1>1 DEF ListIn
<1>3. \A i \in 1 .. n : f[i] \in S /\ f[i] \in Entries /\ f[i] # 0
  BY <1>1, TableFacts
<1>4. \A h \in S : \E i \in 1 .. n : h = f[i]
  BY <1>1
<1>5. S \subseteq Entries
  BY <1>1
<1>6. start \in S \cup {0} /\ (start = 0 <=> S = {})
  <2>1. CASE n = 0
    BY <1>2, <1>4, <2>1
  <2>2. CASE n # 0
    <3>1. 1 \in 1 .. n
      BY <2>2
    <3> QED BY <1>2, <1>3, <2>2, <3>1
  <2> QED BY <2>1, <2>2
<1>7. \A h \in S : nx[h] \in S \cup {0} /\ nx[h] # h
  <2> SUFFICES ASSUME NEW i \in 1 .. n PROVE nx[f[i]] \in S \cup {0} /\ nx[f[i]] # f[i]
    BY <1>4
  <2>1. CASE i = n
    BY <1>2, <1>3, <2>1
  <2>2. CASE i # n
    <3>1. i + 1 \in 1 .. n /\ i # i + 1
      BY <2>2
    <3>2. nx[f[i]] = f[i + 1]
      BY <1>2, <2>2
    <3> QED BY <1>2, <1>3, <3>1, <3>2
  <2> QED BY <2>1, <2>2
<1>8. \A g, h \in S : nx[g] = nx[h] /\ nx[g] # 0 => g = h
  <2> SUFFICES ASSUME NEW i \in 1 .. n, NEW j \in 1 .. n, nx[f[i]] = nx[f[j]], nx[f[i]] # 0
               PROVE  i = j
    BY <1>4
  <2>1. i # n /\ j # n
    BY <1>2
  <2>2. i + 1 \in 1 .. n /\ j + 1 \in 1 .. n
    BY <2>1
  <2>3. f[i + 1] = f[j + 1]
    BY <1>2, <2>1
  <2>4. i + 1 = j + 1
    BY <1>2, <2>2, <2>3
  <2> QED BY <2>4
<1>9. \A h \in S : h # start => \E p \in S : nx[p] = h
  <2> SUFFICES ASSUME NEW i \in 1 .. n, f[i] # start PROVE \E p \in S : nx[p] = f[i]
    BY <1>4
  <2>1. i # 1 /\ i - 1 \in 1 .. n /\ (i - 1) + 1 = i /\ i - 1 # n
    BY <1>2
  <2>2. nx[f[i - 1]] = f[i]
    BY <1>2, <2>1
  <2> QED BY <1>3, <2>1, <2>2
<1>10. \A h \in S : nx[h] # start
  <2> SUFFICES ASSUME NEW i \in 1 .. n PROVE nx[f[i]] # start
    BY <1>4
  <2>1. start = f[1] /\ 1 \in 1 .. n /\ start # 0
    BY <1>2, <1>3
  <2>2. CASE i = n
    BY <1>2, <2>1, <2>2
  <2>3. CASE i # n
    <3>1. i + 1 \in 1 .. n /\ i + 1 # 1
      BY <2>3
    <3> QED BY <1>2, <2>1, <2>3, <3>1
  <2> QED BY <2>2, <2>3
<1> QED BY <1>5, <1>6, <1>7, <1>8, <1>9, <1>10

\* One more in front.
LEMMA ListPush ==
  ASSUME NEW nx, NEW start, NEW S, IsList(nx, start, S), NEW h \in Entries, h \notin S,
         NEW ny, \A g \in S : ny[g] = nx[g], ny[h] = start
  PROVE  IsList(ny, h, S \cup {h})
<1>0. PICK n \in Nat : \E f \in [1 .. n -> Entries] :
        ListIn(nx, start, n, f) /\ S = {f[i] : i \in 1 .. n}
  BY DEF IsList
<1>1. PICK f \in [1 .. n -> Entries] :
        ListIn(nx, start, n, f) /\ S = {f[i] : i \in 1 .. n}
  BY <1>0
<1>2. /\ \A i, j \in 1 .. n : f[i] = f[j] => i = j
      /\ start = IF n = 0 THEN 0 ELSE f[1]
      /\ \A i \in 1 .. n : nx[f[i]] = IF i = n THEN 0 ELSE f[i + 1]
  BY <1>1 DEF ListIn
<1>3. PICK m \in Nat : m = n + 1
  OBVIOUS
<1> DEFINE e == [i \in 1 .. m |-> IF i = 1 THEN h ELSE f[i - 1]]
<1>4. \A i \in 1 .. m : i = 1 \/ (i # 1 /\ i - 1 \in 1 .. n)
  BY <1>3
<1>5. /\ e \in [1 .. m -> Entries] /\ 1 \in 1 .. m /\ e[1] = h
      /\ \A i \in 1 .. m : i # 1 => e[i] = f[i - 1] /\ e[i] \in S
  BY <1>1, <1>3, <1>4
<1> HIDE DEF e
<1>6. \A i, j \in 1 .. m : e[i] = e[j] => i = j
  <2> SUFFICES ASSUME NEW i \in 1 .. m, NEW j \in 1 .. m, e[i] = e[j] PROVE i = j
    OBVIOUS
  <2>1. CASE i = 1 \/ j = 1
    BY <1>5, <2>1
  <2>2. CASE i # 1 /\ j # 1
    <3>1. i - 1 \in 1 .. n /\ j - 1 \in 1 .. n /\ f[i - 1] = f[j - 1]
      BY <1>4, <1>5, <2>2
    <3>2. i - 1 = j - 1
      BY <1>2, <3>1
    <3> QED BY <3>2
  <2> QED BY <2>1, <2>2
<1>7. \A i \in 1 .. m : ny[e[i]] = IF i = m THEN 0 ELSE e[i + 1]
  <2> SUFFICES ASSUME NEW i \in 1 .. m PROVE ny[e[i]] = IF i = m THEN 0 ELSE e[i + 1]
    OBVIOUS
  <2>1. CASE i = 1
    <3>1. ny[e[i]] = start
      BY <1>5, <2>1
    <3>2. CASE n = 0
      BY <1>2, <1>3, <2>1, <3>1, <3>2
    <3>3. CASE n # 0
      <4>1. i # m /\ i + 1 \in 1 .. m /\ i + 1 # 1 /\ (i + 1) - 1 = 1
        BY <1>3, <2>1, <3>3
      <4> QED BY <1>2, <1>5, <3>1, <3>3, <4>1
    <3> QED BY <3>2, <3>3
  <2>2. CASE i # 1
    <3>1. PICK k \in 1 .. n : k = i - 1 /\ i = k + 1
      BY <1>4, <2>2
    <3>2. ny[e[i]] = nx[f[k]] /\ e[i] = f[k]
      BY <1>5, <2>2, <3>1
    <3>3. CASE k = n
      BY <1>2, <1>3, <3>1, <3>2, <3>3
    <3>4. CASE k # n
      <4>1. i # m /\ i + 1 \in 1 .. m /\ i + 1 # 1 /\ (i + 1) - 1 = k + 1
        BY <1>3, <3>1, <3>4
      <4> QED BY <1>2, <1>5, <3>2, <3>4, <4>1
    <3> QED BY <3>3, <3>4
  <2> QED BY <2>1, <2>2
<1>8. S \cup {h} = {e[i] : i \in 1 .. m}
  <2>1. \A i \in 1 .. m : e[i] \in S \cup {h}
    BY <1>5
  <2>2. ASSUME NEW k \in 1 .. n PROVE k + 1 \in 1 .. m /\ e[k + 1] = f[k]
    <3>1. k + 1 \in 1 .. m /\ k + 1 # 1 /\ (k + 1) - 1 = k
      BY <1>3
    <3> QED BY <1>5, <3>1
  <2>3. \A g \in S : \E i \in 1 .. m : g = e[i]
    BY <1>1, <2>2
  <2> QED BY <1>5, <2>1, <2>3
<1>9. h = IF m = 0 THEN 0 ELSE e[1]
  BY <1>3, <1>5
<1>10. ListIn(ny, h, m, e)
  BY <1>5, <1>6, <1>7, <1>9 DEF ListIn
<1> QED BY <1>5, <1>8, <1>10 DEF IsList

\* One out, wherever it is: who pointed to it points to what it pointed to.
LEMMA ListDrop ==
  ASSUME NEW nx, NEW start, NEW S, IsList(nx, start, S), NEW h \in S,
         NEW ny, \A g \in S : g # h => ny[g] = IF nx[g] = h THEN nx[h] ELSE nx[g]
  PROVE  IsList(ny, IF start = h THEN nx[h] ELSE start, S \ {h})
<1>0. PICK n \in Nat : \E f \in [1 .. n -> Entries] :
        ListIn(nx, start, n, f) /\ S = {f[i] : i \in 1 .. n}
  BY DEF IsList
<1>1. PICK f \in [1 .. n -> Entries] :
        ListIn(nx, start, n, f) /\ S = {f[i] : i \in 1 .. n}
  BY <1>0
<1>2. /\ \A i, j \in 1 .. n : f[i] = f[j] => i = j
      /\ start = IF n = 0 THEN 0 ELSE f[1]
      /\ \A i \in 1 .. n : nx[f[i]] = IF i = n THEN 0 ELSE f[i + 1]
  BY <1>1 DEF ListIn
<1>3. PICK k \in 1 .. n : h = f[k]
  BY <1>1
<1>4. PICK m \in Nat : m = n - 1 /\ n # 0 /\ n = m + 1
  BY <1>3
<1>5. PICK s : s = IF start = h THEN nx[h] ELSE start
  OBVIOUS
<1> DEFINE e == [i \in 1 .. m |-> IF i < k THEN f[i] ELSE f[i + 1]]
           At(i) == IF i < k THEN i ELSE i + 1
<1>6. \A i \in 1 .. m : At(i) \in 1 .. n /\ At(i) # k /\ e[i] = f[At(i)]
  BY <1>4
<1>7. \A j \in 1 .. n : j # k => \E i \in 1 .. m : At(i) = j
  <2> SUFFICES ASSUME NEW j \in 1 .. n, j # k PROVE \E i \in 1 .. m : At(i) = j
    OBVIOUS
  <2>1. CASE j < k
    <3>1. j \in 1 .. m /\ At(j) = j
      BY <1>4, <2>1
    <3> QED BY <3>1
  <2>2. CASE j > k
    <3>1. j - 1 \in 1 .. m /\ At(j - 1) = j
      BY <1>4, <2>2
    <3> QED BY <3>1
  <2> QED BY <2>1, <2>2
<1>8. e \in [1 .. m -> Entries]
  BY <1>4
<1>9. \A i, j \in 1 .. m : At(i) = At(j) => i = j
  OBVIOUS
<1> HIDE DEF e
<1>10. \A i, j \in 1 .. m : e[i] = e[j] => i = j
  <2> SUFFICES ASSUME NEW i \in 1 .. m, NEW j \in 1 .. m, e[i] = e[j] PROVE i = j
    OBVIOUS
  <2> HIDE DEF At
  <2> QED BY <1>2, <1>6, <1>9
<1>11. \A i \in 1 .. n : f[i] = h => i = k
  BY <1>2, <1>3
<1>12. \A i \in 1 .. m : ny[e[i]] = IF i = m THEN 0 ELSE e[i + 1]
  <2> SUFFICES ASSUME NEW i \in 1 .. m PROVE ny[e[i]] = IF i = m THEN 0 ELSE e[i + 1]
    OBVIOUS
  <2>1. PICK a \in 1 .. n : a = At(i) /\ a # k /\ e[i] = f[a]
    BY <1>6
  <2>2. f[a] \in S /\ f[a] # h
    BY <1>1, <1>11, <2>1
  <2>3. ny[e[i]] = IF nx[f[a]] = h THEN nx[h] ELSE nx[f[a]]
    BY <2>1, <2>2
  <2>4. CASE a + 1 = k
    <3>1. a # n /\ nx[f[a]] = h /\ i = a
      BY <1>2, <1>3, <2>1, <2>4
    <3>2. ny[e[i]] = IF k = n THEN 0 ELSE f[k + 1]
      BY <1>2, <1>3, <2>3, <3>1
    <3>3. CASE k = n
      <4>1. i = m
        BY <1>4, <2>4, <3>1, <3>3
      <4> QED BY <3>2, <3>3, <4>1
    <3>4. CASE k # n
      <4>1. i # m /\ i + 1 \in 1 .. m /\ At(i + 1) = k + 1
        BY <1>4, <2>4, <3>1, <3>4
      <4>2. e[i + 1] = f[At(i + 1)]
        BY <1>6, <4>1
      <4> QED BY <3>2, <3>4, <4>1, <4>2
    <3> QED BY <3>3, <3>4
  <2>5. CASE a + 1 # k
    <3>1. CASE a = n
      <4>1. i = m
        BY <1>4, <2>1, <2>5, <3>1
      <4>2. nx[f[a]] = 0 /\ h # 0
        BY <1>2, <1>3, <3>1, TableFacts
      <4> QED BY <2>3, <4>1, <4>2
    <3>2. CASE a # n
      <4>1. a + 1 \in 1 .. n /\ nx[f[a]] = f[a + 1]
        BY <1>2, <3>2
      <4>2. f[a + 1] # h
        BY <1>11, <2>5, <4>1
      <4>3. i # m /\ i + 1 \in 1 .. m /\ At(i + 1) = a + 1
        BY <1>4, <2>1, <2>5, <3>2
      <4>4. e[i + 1] = f[At(i + 1)]
        BY <1>6, <4>3
      <4> QED BY <2>3, <4>1, <4>2, <4>3, <4>4
    <3> QED BY <3>1, <3>2
  <2> QED BY <2>4, <2>5
<1>13. S \ {h} = {e[i] : i \in 1 .. m}
  <2>1. \A i \in 1 .. m : e[i] \in S /\ e[i] # h
    BY <1>1, <1>6, <1>11
  <2>2. \A g \in S : g # h => \E i \in 1 .. m : g = e[i]
    <3> SUFFICES ASSUME NEW j \in 1 .. n, f[j] # h PROVE \E i \in 1 .. m : f[j] = e[i]
      BY <1>1
    <3>1. j # k
      BY <1>3
    <3> QED BY <1>6, <1>7, <3>1
  <2> QED BY <2>1, <2>2
<1>14. s = IF m = 0 THEN 0 ELSE e[1]
  <2>1. start = f[1] /\ 1 \in 1 .. n
    BY <1>2, <1>4
  <2>2. start = h <=> k = 1
    BY <1>2, <1>3, <2>1
  <2>3. CASE m = 0
    <3>1. n = 1 /\ k = 1 /\ k = n
      BY <1>4, <2>3
    <3>2. nx[h] = 0
      BY <1>2, <1>3, <3>1
    <3> QED BY <1>5, <2>2, <2>3, <3>1, <3>2
  <2>4. CASE m # 0 /\ k = 1
    <3>1. k # n /\ 1 \in 1 .. m /\ At(1) = k + 1
      BY <1>4, <2>4
    <3>2. nx[h] = f[k + 1] /\ e[1] = f[At(1)]
      BY <1>2, <1>3, <1>6, <3>1
    <3> QED BY <1>5, <2>2, <2>4, <3>1, <3>2
  <2>5. CASE m # 0 /\ k # 1
    <3>1. 1 \in 1 .. m /\ At(1) = 1
      BY <1>4, <2>5
    <3>2. e[1] = f[At(1)]
      BY <1>6, <3>1
    <3> QED BY <1>5, <2>1, <2>2, <2>5, <3>1, <3>2
  <2> QED BY <2>3, <2>4, <2>5
<1>15. ListIn(ny, s, m, e)
  BY <1>8, <1>10, <1>12, <1>14 DEF ListIn
<1> QED BY <1>5, <1>8, <1>13, <1>15 DEF IsList

-----------------------------------------------------------------------------
(* The table: what its lists hold between two requests.                     *)

Buckets == 0 .. HASH_SIZE - 1
EntryType == [host : Host \cup {0}, type : Type \cup {"NONE"}, hnext : Entries \cup {0}]
TableType == [tab : [Entries -> EntryType], hash_head : [Buckets -> Entries \cup {0}],
              free_head : Entries \cup {0}, next_free : FIRST_HANDLE .. MAX_HANDLES, live : Int]

InBucket(t, b) == {h \in Used(t) : hash_of(t.tab[h].host) = b}
GivenOut(t) == FIRST_HANDLE .. t.next_free - 1

OneEach(t) ==
  \A g, h \in Used(t) : t.tab[g].host = t.tab[h].host /\ t.tab[g].type = t.tab[h].type => g = h

\* What holds of a table but for its free list.
Filed(t) ==
  /\ t \in TableType
  /\ Used(t) \subseteq GivenOut(t)
  /\ \A b \in Buckets : IsList(Links(t), t.hash_head[b], InBucket(t, b))
  /\ t.live = Cardinality(Used(t))
  /\ OneEach(t)

TabInv(t) == Filed(t) /\ IsList(Links(t), t.free_head, GivenOut(t) \ Used(t))

\* The same entries for the same host handles, at least outside S.
SameBut(t, u, S) ==
  /\ u.next_free = t.next_free
  /\ Used(u) = Used(t) \ S
  /\ \A h \in Used(u) : u.tab[h].host = t.tab[h].host /\ u.tab[h].type = t.tab[h].type

LEMMA HashFacts == /\ HASH_SIZE \in Nat /\ \A x \in Nat : hash_of(x) \in Buckets
                   /\ Host \subseteq Nat /\ 0 \notin Host
BY ValuesAssumption DEF hash_of, Buckets

LEMMA TableParts ==
  ASSUME NEW t \in TableType
  PROVE  /\ \A h \in Entries : /\ t.tab[h] \in EntryType /\ t.tab[h].host \in Host \cup {0}
                               /\ t.tab[h].type \in Type \cup {"NONE"}
                               /\ t.tab[h].hnext \in Entries \cup {0} /\ t.tab[h].host \in Nat
                               /\ Links(t)[h] = t.tab[h].hnext
                               /\ hash_of(t.tab[h].host) \in Buckets
         /\ \A b \in Buckets : t.hash_head[b] \in Entries \cup {0}
         /\ t.free_head \in Entries \cup {0}
         /\ t.next_free \in Nat /\ FIRST_HANDLE <= t.next_free /\ t.next_free <= MAX_HANDLES
         /\ t.live \in Int
         /\ Used(t) \subseteq Entries
         /\ GivenOut(t) \subseteq Entries /\ \A h \in GivenOut(t) : h < t.next_free
         /\ \A b \in Buckets : InBucket(t, b) \subseteq Used(t)
<1>1. \A h \in Entries : /\ t.tab[h] \in EntryType /\ t.tab[h].host \in Host \cup {0}
                         /\ t.tab[h].type \in Type \cup {"NONE"}
                         /\ t.tab[h].hnext \in Entries \cup {0}
                         /\ Links(t)[h] = t.tab[h].hnext
  BY DEF TableType, EntryType, Links
<1>2. \A h \in Entries : t.tab[h].host \in Nat /\ hash_of(t.tab[h].host) \in Buckets
  <2>1. \A h \in Entries : t.tab[h].host \in Nat
    <3>1. Host \cup {0} \subseteq Nat
      BY HashFacts
    <3>2. \A h \in Entries : t.tab[h].host \in Host \cup {0}
      BY <1>1
    <3> QED BY <3>1, <3>2, Zenon
  <2> QED BY <2>1, HashFacts
<1>3. /\ \A b \in Buckets : t.hash_head[b] \in Entries \cup {0}
      /\ t.free_head \in Entries \cup {0} /\ t.live \in Int
      /\ t.next_free \in FIRST_HANDLE .. MAX_HANDLES
  BY DEF TableType
<1>4. t.next_free \in Nat /\ FIRST_HANDLE <= t.next_free /\ t.next_free <= MAX_HANDLES
  BY <1>3, TableFacts
<1>5. GivenOut(t) \subseteq Entries /\ \A h \in GivenOut(t) : h < t.next_free
  BY <1>4, TableFacts DEF GivenOut, Entries
<1> QED BY <1>1, <1>2, <1>3, <1>4, <1>5 DEF Used, InBucket

LEMMA WalkBucket ==
  ASSUME NEW t, Filed(t), NEW b \in Buckets
  PROVE  Walk(t, t.hash_head[b]) = InBucket(t, b)
BY WalkIsList DEF Filed

\* What h_release writes.
LEMMA FreedParts ==
  ASSUME NEW t, Filed(t), NEW h \in Used(t), NEW b, b = hash_of(t.tab[h].host)
  PROVE  LET u == Freed(t, h)
         IN  /\ u \in TableType
             /\ u.next_free = t.next_free /\ u.free_head = h /\ u.live = t.live - 1
             /\ \A c \in Buckets :
                  u.hash_head[c] = IF c = b /\ t.hash_head[b] = h THEN t.tab[h].hnext
                                   ELSE t.hash_head[c]
             /\ u.tab[h] = Entry(0, "NONE", t.free_head)
             /\ \A p \in Entries : p # h =>
                  /\ u.tab[p].host = t.tab[p].host /\ u.tab[p].type = t.tab[p].type
                  /\ u.tab[p].hnext =
                       IF t.hash_head[b] # h /\ p \in InBucket(t, b) /\ t.tab[p].hnext = h
                       THEN t.tab[h].hnext ELSE t.tab[p].hnext
<1>1. t \in TableType /\ h \in Entries /\ b \in Buckets
  BY TableParts DEF Filed, Used
<1>2. /\ t = [tab |-> t.tab, hash_head |-> t.hash_head, free_head |-> t.free_head,
              next_free |-> t.next_free, live |-> t.live]
      /\ t.tab \in [Entries -> EntryType] /\ t.hash_head \in [Buckets -> Entries \cup {0}]
      /\ t.free_head \in Entries \cup {0} /\ t.next_free \in FIRST_HANDLE .. MAX_HANDLES /\ t.live \in Int
  BY <1>1 DEF TableType
<1>3. \A p \in Entries : t.tab[p].hnext \in Entries \cup {0}
  BY <1>1, TableParts
<1>4. Walk(t, t.hash_head[b]) = InBucket(t, b)
  BY <1>1, WalkBucket
<1>5. PICK v : v = Unlinked(t, h, b)
  OBVIOUS
<1>6. PICK heads : heads = [c \in Buckets |-> IF c = b /\ t.hash_head[b] = h THEN t.tab[h].hnext
                                              ELSE t.hash_head[c]]
  OBVIOUS
<1>7. PICK tab : tab = [p \in Entries |->
             IF t.hash_head[b] # h /\ p \in InBucket(t, b) /\ t.tab[p].hnext = h
             THEN [t.tab[p] EXCEPT !.hnext = t.tab[h].hnext] ELSE t.tab[p]]
  OBVIOUS
<1>8. v = [tab |-> tab, hash_head |-> heads, free_head |-> t.free_head,
           next_free |-> t.next_free, live |-> t.live]
  <2>1. CASE t.hash_head[b] = h
    <3>1. v = [t EXCEPT !.hash_head[b] = t.tab[h].hnext]
      BY <1>5, <2>1 DEF Unlinked
    <3>2. tab = t.tab
      BY <1>2, <1>7, <2>1
    <3>3. heads = [t.hash_head EXCEPT ![b] = t.tab[h].hnext]
      BY <1>1, <1>2, <1>6, <2>1
    <3> QED BY <1>2, <3>1, <3>2, <3>3
  <2>2. CASE t.hash_head[b] # h
    <3>1. v = [t EXCEPT !.tab = [p \in Entries |->
                 IF p \in InBucket(t, b) /\ t.tab[p].hnext = h
                 THEN [t.tab[p] EXCEPT !.hnext = t.tab[h].hnext] ELSE t.tab[p]]]
      BY <1>4, <1>5, <2>2 DEF Unlinked
    <3>2. heads = t.hash_head
      BY <1>2, <1>6, <2>2
    <3>3. tab = [p \in Entries |->
                   IF p \in InBucket(t, b) /\ t.tab[p].hnext = h
                   THEN [t.tab[p] EXCEPT !.hnext = t.tab[h].hnext] ELSE t.tab[p]]
      BY <1>7, <2>2
    <3> QED BY <1>2, <3>1, <3>2, <3>3
  <2> QED BY <2>1, <2>2
<1>9. \A p \in Entries :
        /\ tab[p] \in EntryType /\ tab[p].host = t.tab[p].host /\ tab[p].type = t.tab[p].type
        /\ tab[p].hnext =
             IF t.hash_head[b] # h /\ p \in InBucket(t, b) /\ t.tab[p].hnext = h
             THEN t.tab[h].hnext ELSE t.tab[p].hnext
  BY <1>1, <1>2, <1>3, <1>7 DEF EntryType
<1>10. \A c \in Buckets : heads[c] \in Entries \cup {0}
  BY <1>1, <1>2, <1>3, <1>6
<1>11. PICK last : last = [tab EXCEPT ![h] = Entry(0, "NONE", t.free_head)]
  OBVIOUS
<1>12. Freed(t, h) = [tab |-> last, hash_head |-> heads, free_head |-> h,
                      next_free |-> t.next_free, live |-> t.live - 1]
  <2>1. Freed(t, h) = [v EXCEPT !.tab[h] = Entry(0, "NONE", t.free_head),
                                !.free_head = h, !.live = @ - 1]
    BY <1>5, Zenon DEF Freed
  <2>2. v.tab = tab /\ v.live = t.live
    BY <1>8
  <2>3. Freed(t, h) = [v EXCEPT !.tab = [v.tab EXCEPT ![h] = Entry(0, "NONE", t.free_head)],
                                !.free_head = h, !.live = v.live - 1]
    BY <2>1
  <2>4. Freed(t, h) = [v EXCEPT !.tab = last, !.free_head = h, !.live = t.live - 1]
    BY <1>11, <2>2, <2>3
  <2> QED BY <1>8, <2>4
<1>13. Entry(0, "NONE", t.free_head) \in EntryType
  BY <1>2 DEF Entry, EntryType
<1>14. last \in [Entries -> EntryType] /\ heads \in [Buckets -> Entries \cup {0}]
  BY <1>1, <1>6, <1>7, <1>9, <1>10, <1>11, <1>13
<1>15. Freed(t, h) \in TableType
  BY <1>1, <1>2, <1>12, <1>14 DEF TableType
<1>16. last[h] = Entry(0, "NONE", t.free_head) /\ \A p \in Entries : p # h => last[p] = tab[p]
  BY <1>1, <1>7, <1>11
<1> QED BY <1>6, <1>9, <1>12, <1>15, <1>16

\* h_release keeps every list, and gives the entry to the free one.
LEMMA FreedKeeps ==
  ASSUME NEW t, TabInv(t), NEW h \in Used(t)
  PROVE  TabInv(Freed(t, h)) /\ SameBut(t, Freed(t, h), {h})
<1>1. PICK b : b = hash_of(t.tab[h].host)
  OBVIOUS
<1>2. PICK u : u = Freed(t, h)
  OBVIOUS
<1>3. /\ t \in TableType /\ Used(t) \subseteq GivenOut(t) /\ t.live = Cardinality(Used(t))
      /\ OneEach(t) /\ IsList(Links(t), t.free_head, GivenOut(t) \ Used(t))
      /\ \A c \in Buckets : IsList(Links(t), t.hash_head[c], InBucket(t, c))
  BY DEF TabInv, Filed
<1>4. h \in Entries /\ b \in Buckets /\ h \in InBucket(t, b)
  BY <1>1, <1>3, TableParts DEF InBucket
<1>5. /\ u \in TableType
      /\ u.next_free = t.next_free /\ u.free_head = h /\ u.live = t.live - 1
      /\ \A c \in Buckets :
           u.hash_head[c] = IF c = b /\ t.hash_head[b] = h THEN t.tab[h].hnext
                            ELSE t.hash_head[c]
      /\ u.tab[h] = Entry(0, "NONE", t.free_head)
      /\ \A p \in Entries : p # h =>
           /\ u.tab[p].host = t.tab[p].host /\ u.tab[p].type = t.tab[p].type
           /\ u.tab[p].hnext =
                IF t.hash_head[b] # h /\ p \in InBucket(t, b) /\ t.tab[p].hnext = h
                THEN t.tab[h].hnext ELSE t.tab[p].hnext
  <2>1. Filed(t)
    BY DEF TabInv
  <2> QED BY <1>1, <1>2, <2>1, FreedParts
<1>6. /\ \A p \in Entries : Links(t)[p] = t.tab[p].hnext /\ Links(u)[p] = u.tab[p].hnext
      /\ Used(t) \subseteq Entries /\ GivenOut(t) \subseteq Entries
      /\ \A c \in Buckets : InBucket(t, c) \subseteq Used(t)
  BY <1>3, <1>5, TableParts
<1>7. u.tab[h].host = 0 /\ u.tab[h].hnext = t.free_head
  BY <1>5 DEF Entry
<1>8. Used(u) = Used(t) \ {h}
  BY <1>5, <1>7 DEF Used
<1>9. GivenOut(u) = GivenOut(t)
  BY <1>5 DEF GivenOut
<1>10. SameBut(t, u, {h})
  BY <1>5, <1>6, <1>8 DEF SameBut
<1>11. \A c \in Buckets : InBucket(u, c) = IF c = b THEN InBucket(t, b) \ {h} ELSE InBucket(t, c)
  <2>1. \A p \in Used(u) : p \in Used(t) /\ p # h /\ u.tab[p].host = t.tab[p].host
    BY <1>5, <1>6, <1>8
  <2>2. \A c \in Buckets : \A p : p \in InBucket(u, c) <=> p \in InBucket(t, c) /\ p # h
    BY <1>8, <2>1 DEF InBucket
  <2>3. \A c \in Buckets : c # b => h \notin InBucket(t, c)
    BY <1>1 DEF InBucket
  <2> QED BY <2>2, <2>3
<1>12. \A c \in Buckets : IsList(Links(u), u.hash_head[c], InBucket(u, c))
  <2> SUFFICES ASSUME NEW c \in Buckets PROVE IsList(Links(u), u.hash_head[c], InBucket(u, c))
    OBVIOUS
  <2>1. CASE c = b
    <3>1. PICK S : S = InBucket(t, b) /\ S \subseteq Entries
      BY <1>4, <1>6
    <3>2. PICK start : start = t.hash_head[b]
      OBVIOUS
    <3>3. IsList(Links(t), start, S) /\ h \in S
      BY <1>3, <1>4, <3>1, <3>2
    <3>4. \A g \in S : Links(t)[g] # start
      BY <3>3, ListClosed
    <3>5. \A g \in S : g # h =>
            Links(u)[g] = IF Links(t)[g] = h THEN Links(t)[h] ELSE Links(t)[g]
      <4> SUFFICES ASSUME NEW g \in S, g # h
                   PROVE Links(u)[g] = IF Links(t)[g] = h THEN Links(t)[h] ELSE Links(t)[g]
        OBVIOUS
      <4>1. /\ g \in Entries /\ Links(t)[g] = t.tab[g].hnext /\ Links(u)[g] = u.tab[g].hnext
            /\ Links(t)[h] = t.tab[h].hnext
        BY <1>4, <1>6, <3>1
      <4>2. u.tab[g].hnext = IF start # h /\ t.tab[g].hnext = h THEN t.tab[h].hnext
                             ELSE t.tab[g].hnext
        BY <1>5, <3>1, <3>2, <4>1
      <4>3. Links(t)[g] # start
        BY <3>4
      <4> QED BY <4>1, <4>2, <4>3
    <3>6. IsList(Links(u), IF start = h THEN Links(t)[h] ELSE start, S \ {h})
      BY <3>3, <3>5, ListDrop
    <3>7. u.hash_head[c] = IF start = h THEN Links(t)[h] ELSE start
      BY <1>4, <1>5, <1>6, <2>1, <3>2
    <3> QED BY <1>11, <2>1, <3>1, <3>6, <3>7
  <2>2. CASE c # b
    <3>1. \A g \in InBucket(t, c) : g \in Entries /\ g # h /\ g \notin InBucket(t, b)
      BY <1>1, <1>6, <2>2 DEF InBucket
    <3>2. \A g \in InBucket(t, c) : Links(u)[g] = Links(t)[g]
      BY <1>5, <1>6, <3>1
    <3>3. u.hash_head[c] = t.hash_head[c] /\ InBucket(u, c) = InBucket(t, c)
      BY <1>5, <1>11, <2>2
    <3>4. IsList(Links(t), t.hash_head[c], InBucket(t, c))
      BY <1>3
    <3> QED BY <3>2, <3>3, <3>4, ListFrame
  <2> QED BY <2>1, <2>2
<1>13. IsList(Links(u), u.free_head, GivenOut(u) \ Used(u))
  <2>1. PICK S : S = GivenOut(t) \ Used(t)
    OBVIOUS
  <2>2. GivenOut(u) \ Used(u) = S \cup {h} /\ h \notin S /\ S \subseteq Entries
    BY <1>3, <1>6, <1>8, <1>9, <2>1
  <2>3. \A g \in S : Links(u)[g] = Links(t)[g]
    <3>1. \A g \in S : g \in Entries /\ g # h /\ g \notin InBucket(t, b)
      BY <1>4, <1>6, <2>1, <2>2
    <3> QED BY <1>5, <1>6, <3>1
  <2>4. Links(u)[h] = t.free_head
    BY <1>4, <1>6, <1>7
  <2>5. IsList(Links(t), t.free_head, S)
    BY <1>3, <2>1
  <2>6. IsList(Links(u), h, S \cup {h})
    BY <1>4, <2>2, <2>3, <2>4, <2>5, ListPush
  <2> QED BY <1>5, <2>2, <2>6
<1>14. u.live = Cardinality(Used(u))
  <2>1. IsFiniteSet(Used(t))
    BY <1>6, TableFacts, FS_Subset
  <2>2. Cardinality(Used(t) \ {h}) = Cardinality(Used(t)) - 1
    BY <2>1, FS_RemoveElement
  <2> QED BY <1>3, <1>5, <1>8, <2>2
<1>15. OneEach(u)
  BY <1>3, <1>5, <1>6, <1>8 DEF OneEach
<1>16. Used(u) \subseteq GivenOut(u)
  BY <1>3, <1>8, <1>9
<1>17. TabInv(u)
  BY <1>5, <1>12, <1>13, <1>14, <1>15, <1>16 DEF TabInv, Filed
<1> QED BY <1>2, <1>10, <1>17

\* A table with the entry h off its free list and not yet used.
Ready(t, h) ==
  /\ Filed(t)
  /\ h \in GivenOut(t) \ Used(t)
  /\ IsList(Links(t), t.free_head, (GivenOut(t) \ Used(t)) \ {h})

\* No handle stands for the host's.
NoneFor(t, type, host) ==
  \A g \in Used(t) : ~(t.tab[g].host = host /\ t.tab[g].type = type)

LEMMA EnteredParts ==
  ASSUME NEW t, Filed(t), NEW h \in Entries, NEW type \in Type, NEW host \in Host,
         NEW b, b = hash_of(host)
  PROVE  LET u == Entered(t, h, type, host)
         IN  /\ u \in TableType
             /\ u.next_free = t.next_free /\ u.free_head = t.free_head /\ u.live = t.live + 1
             /\ \A c \in Buckets : u.hash_head[c] = IF c = b THEN h ELSE t.hash_head[c]
             /\ u.tab[h] = Entry(host, type, t.hash_head[b])
             /\ \A p \in Entries : p # h => u.tab[p] = t.tab[p]
<1>1. t \in TableType /\ b \in Buckets
  BY HashFacts DEF Filed
<1>2. /\ t = [tab |-> t.tab, hash_head |-> t.hash_head, free_head |-> t.free_head,
              next_free |-> t.next_free, live |-> t.live]
      /\ t.tab \in [Entries -> EntryType] /\ t.hash_head \in [Buckets -> Entries \cup {0}]
      /\ t.free_head \in Entries \cup {0} /\ t.next_free \in FIRST_HANDLE .. MAX_HANDLES /\ t.live \in Int
  BY <1>1 DEF TableType
<1>3. PICK e : e = Entry(host, type, t.hash_head[b])
  OBVIOUS
<1>4. PICK tab : tab = [t.tab EXCEPT ![h] = e]
  OBVIOUS
<1>5. PICK heads : heads = [t.hash_head EXCEPT ![b] = h]
  OBVIOUS
<1>6. Entered(t, h, type, host) = [t EXCEPT !.live = t.live + 1, !.tab = tab, !.hash_head = heads]
  <2>1. Entered(t, h, type, host) =
          [t EXCEPT !.live = @ + 1, !.tab[h] = e, !.hash_head[b] = h]
    BY <1>3, Zenon DEF Entered
  <2> QED BY <1>4, <1>5, <2>1
<1>7. Entered(t, h, type, host) =
        [tab |-> tab, hash_head |-> heads, free_head |-> t.free_head,
         next_free |-> t.next_free, live |-> t.live + 1]
  BY <1>2, <1>6
<1>8. e \in EntryType
  <2>1. t.hash_head[b] \in Entries \cup {0}
    BY <1>1, <1>2
  <2> QED BY <1>3, <2>1 DEF Entry, EntryType
<1>9. tab \in [Entries -> EntryType] /\ heads \in [Buckets -> Entries \cup {0}]
  BY <1>1, <1>2, <1>4, <1>5, <1>8
<1>10. Entered(t, h, type, host) \in TableType
  BY <1>2, <1>7, <1>9 DEF TableType
<1>11. tab[h] = e /\ \A p \in Entries : p # h => tab[p] = t.tab[p]
  BY <1>2, <1>4
<1>12. \A c \in Buckets : heads[c] = IF c = b THEN h ELSE t.hash_head[c]
  BY <1>2, <1>5
<1> QED BY <1>3, <1>7, <1>10, <1>11, <1>12

\* h16 enters a new handle in front of its chain.
LEMMA EnteredKeeps ==
  ASSUME NEW t, NEW h, Ready(t, h), NEW type \in Type, NEW host \in Host, NoneFor(t, type, host)
  PROVE  /\ TabInv(Entered(t, h, type, host))
         /\ Used(Entered(t, h, type, host)) = Used(t) \cup {h}
         /\ \A g \in Used(t) : Entered(t, h, type, host).tab[g] = t.tab[g]
<1>1. PICK b : b = hash_of(host)
  OBVIOUS
<1>2. PICK u : u = Entered(t, h, type, host)
  OBVIOUS
<1>3. /\ t \in TableType /\ Used(t) \subseteq GivenOut(t) /\ t.live = Cardinality(Used(t))
      /\ OneEach(t) /\ h \in GivenOut(t) \ Used(t)
      /\ IsList(Links(t), t.free_head, (GivenOut(t) \ Used(t)) \ {h})
      /\ \A c \in Buckets : IsList(Links(t), t.hash_head[c], InBucket(t, c))
  BY DEF Ready, Filed
<1>4. h \in Entries /\ h \notin Used(t) /\ b \in Buckets /\ host # 0 /\ host \in Nat
  BY <1>1, <1>3, TableParts, HashFacts
<1>5. /\ u \in TableType
      /\ u.next_free = t.next_free /\ u.free_head = t.free_head /\ u.live = t.live + 1
      /\ \A c \in Buckets : u.hash_head[c] = IF c = b THEN h ELSE t.hash_head[c]
      /\ u.tab[h] = Entry(host, type, t.hash_head[b])
      /\ \A p \in Entries : p # h => u.tab[p] = t.tab[p]
  <2>1. Filed(t)
    BY DEF Ready
  <2> QED BY <1>1, <1>2, <1>4, <2>1, EnteredParts
<1>6. /\ \A p \in Entries : Links(t)[p] = t.tab[p].hnext /\ Links(u)[p] = u.tab[p].hnext
      /\ Used(t) \subseteq Entries /\ GivenOut(t) \subseteq Entries
      /\ \A c \in Buckets : InBucket(t, c) \subseteq Used(t)
  BY <1>3, <1>5, TableParts
<1>7. u.tab[h].host = host /\ u.tab[h].type = type /\ u.tab[h].hnext = t.hash_head[b]
  BY <1>5 DEF Entry
<1>8. Used(u) = Used(t) \cup {h}
  BY <1>4, <1>5, <1>7 DEF Used
<1>9. GivenOut(u) = GivenOut(t)
  BY <1>5 DEF GivenOut
<1>10. \A g \in Used(t) : g \in Entries /\ g # h /\ u.tab[g] = t.tab[g]
  BY <1>4, <1>5, <1>6
<1>11. \A c \in Buckets : InBucket(u, c) = IF c = b THEN InBucket(t, b) \cup {h} ELSE InBucket(t, c)
  <2>1. \A c \in Buckets : \A p : p \in InBucket(u, c) <=> p \in InBucket(t, c) \/ (p = h /\ c = b)
    BY <1>1, <1>7, <1>8, <1>10 DEF InBucket
  <2> QED BY <2>1
<1>12. \A g \in Used(t) : Links(u)[g] = Links(t)[g]
  BY <1>6, <1>10
<1>13. \A c \in Buckets : IsList(Links(u), u.hash_head[c], InBucket(u, c))
  <2> SUFFICES ASSUME NEW c \in Buckets PROVE IsList(Links(u), u.hash_head[c], InBucket(u, c))
    OBVIOUS
  <2>1. \A g \in InBucket(t, c) : Links(u)[g] = Links(t)[g]
    BY <1>6, <1>12
  <2>2. IsList(Links(t), t.hash_head[c], InBucket(t, c))
    BY <1>3
  <2>3. CASE c = b
    <3>1. Links(u)[h] = t.hash_head[c] /\ h \notin InBucket(t, c)
      BY <1>4, <1>6, <1>7, <2>3
    <3>2. IsList(Links(u), h, InBucket(t, c) \cup {h})
      BY <1>4, <2>1, <2>2, <3>1, ListPush
    <3> QED BY <1>5, <1>11, <2>3, <3>2
  <2>4. CASE c # b
    <3>1. u.hash_head[c] = t.hash_head[c] /\ InBucket(u, c) = InBucket(t, c)
      BY <1>5, <1>11, <2>4
    <3> QED BY <2>1, <2>2, <3>1, ListFrame
  <2> QED BY <2>3, <2>4
<1>14. IsList(Links(u), u.free_head, GivenOut(u) \ Used(u))
  <2>1. PICK S : S = (GivenOut(t) \ Used(t)) \ {h}
    OBVIOUS
  <2>2. GivenOut(u) \ Used(u) = S
    BY <1>8, <1>9, <2>1
  <2>3. \A g \in S : Links(u)[g] = Links(t)[g]
    BY <1>5, <1>6, <2>1
  <2>4. IsList(Links(t), t.free_head, S)
    BY <1>3, <2>1
  <2>5. IsList(Links(u), t.free_head, S)
    BY <2>3, <2>4, ListFrame
  <2> QED BY <1>5, <2>2, <2>5
<1>15. u.live = Cardinality(Used(u))
  <2>1. IsFiniteSet(Used(t))
    BY <1>6, TableFacts, FS_Subset
  <2>2. Cardinality(Used(t) \cup {h}) = Cardinality(Used(t)) + 1
    BY <1>4, <2>1, FS_AddElement
  <2> QED BY <1>3, <1>5, <1>8, <2>2
<1>16. OneEach(u)
  <2> SUFFICES ASSUME NEW f \in Used(u), NEW g \in Used(u),
                      u.tab[f].host = u.tab[g].host, u.tab[f].type = u.tab[g].type
               PROVE  f = g
    BY DEF OneEach
  <2>1. CASE f \in Used(t) /\ g \in Used(t)
    BY <1>3, <1>10, <2>1 DEF OneEach
  <2>2. CASE f = h /\ g \in Used(t)
    BY <1>7, <1>10, <2>2 DEF NoneFor
  <2>3. CASE g = h /\ f \in Used(t)
    BY <1>7, <1>10, <2>3 DEF NoneFor
  <2>4. CASE f = h /\ g = h
    BY <2>4
  <2> QED BY <1>8, <2>1, <2>2, <2>3, <2>4
<1>17. Used(u) \subseteq GivenOut(u)
  BY <1>3, <1>8, <1>9
<1>18. TabInv(u)
  BY <1>5, <1>13, <1>14, <1>15, <1>16, <1>17 DEF TabInv, Filed
<1> QED BY <1>2, <1>8, <1>10, <1>18

\* The entry it takes: the last that was freed, or one never used.
LEMMA PoppedReady ==
  ASSUME NEW t, TabInv(t), t.free_head # 0
  PROVE  /\ Ready(Popped(t), t.free_head)
         /\ Used(Popped(t)) = Used(t) /\ Popped(t).tab = t.tab /\ t.free_head \in Entries
<1>1. PICK u : u = Popped(t)
  OBVIOUS
<1>2. PICK h : h = t.free_head
  OBVIOUS
<1>3. /\ t \in TableType /\ Filed(t) /\ IsList(Links(t), h, GivenOut(t) \ Used(t))
  BY <1>2 DEF TabInv, Filed
<1>4. PICK S : S = GivenOut(t) \ Used(t) /\ S \subseteq Entries /\ h \in S
  BY <1>2, <1>3, ListClosed
<1>5. t.tab[h].hnext \in Entries \cup {0} /\ Links(t)[h] = t.tab[h].hnext
  BY <1>3, <1>4, TableParts
<1>6. /\ u \in TableType /\ u.tab = t.tab /\ u.hash_head = t.hash_head /\ u.next_free = t.next_free
      /\ u.live = t.live /\ u.free_head = t.tab[h].hnext
  BY <1>1, <1>2, <1>3, <1>5 DEF Popped, TableType
<1>7. Links(u) = Links(t) /\ Used(u) = Used(t) /\ GivenOut(u) = GivenOut(t)
      /\ \A b \in Buckets : InBucket(u, b) = InBucket(t, b)
  BY <1>6 DEF Links, Used, GivenOut, InBucket
<1>8. Filed(u)
  BY <1>3, <1>6, <1>7 DEF Filed, OneEach
<1>9. IsList(Links(u), u.free_head, S \ {h})
  <2>1. \A g \in S : Links(t)[g] # h
    BY <1>3, <1>4, ListClosed
  <2>2. \A g \in S : g # h => Links(t)[g] = IF Links(t)[g] = h THEN Links(t)[h] ELSE Links(t)[g]
    BY <2>1
  <2>3. IsList(Links(t), IF h = h THEN Links(t)[h] ELSE h, S \ {h})
    BY <1>3, <1>4, <2>2, ListDrop
  <2> QED BY <1>5, <1>6, <1>7, <2>3
<1>10. Ready(u, h)
  BY <1>4, <1>7, <1>8, <1>9 DEF Ready
<1> QED BY <1>1, <1>2, <1>4, <1>6, <1>7, <1>10

LEMMA FreshReady ==
  ASSUME NEW t, TabInv(t), t.free_head = 0, t.next_free < MAX_HANDLES
  PROVE  LET u == [t EXCEPT !.next_free = @ + 1]
         IN  /\ Ready(u, t.next_free)
             /\ Used(u) = Used(t) /\ u.tab = t.tab /\ t.next_free \in Entries
<1>1. PICK u : u = [t EXCEPT !.next_free = @ + 1]
  OBVIOUS
<1>2. PICK h : h = t.next_free
  OBVIOUS
<1>3. /\ t \in TableType /\ Filed(t) /\ IsList(Links(t), 0, GivenOut(t) \ Used(t))
      /\ Used(t) \subseteq GivenOut(t)
  BY DEF TabInv, Filed
<1>4. /\ h \in Nat /\ FIRST_HANDLE <= h /\ h < MAX_HANDLES /\ h \in Entries
      /\ \A g \in GivenOut(t) : g < h
  BY <1>2, <1>3, TableParts, TableFacts DEF Entries
<1>5. GivenOut(t) = Used(t)
  BY <1>3, ListClosed
<1>6. /\ u \in TableType /\ u.tab = t.tab /\ u.hash_head = t.hash_head /\ u.next_free = h + 1
      /\ u.live = t.live /\ u.free_head = 0
  BY <1>1, <1>2, <1>3, <1>4, TableFacts DEF TableType
<1>7. Links(u) = Links(t) /\ Used(u) = Used(t)
      /\ \A b \in Buckets : InBucket(u, b) = InBucket(t, b)
  BY <1>6 DEF Links, Used, InBucket
<1>8. GivenOut(u) = GivenOut(t) \cup {h}
  BY <1>2, <1>4, <1>6, TableFacts DEF GivenOut
<1>9. h \notin Used(t)
  BY <1>3, <1>4
<1>10. Filed(u)
  BY <1>3, <1>6, <1>7, <1>8 DEF Filed, OneEach
<1>11. IsList(Links(u), u.free_head, (GivenOut(u) \ Used(u)) \ {h})
  <2>1. (GivenOut(u) \ Used(u)) \ {h} = {}
    BY <1>5, <1>7, <1>8
  <2> QED BY <1>6, <2>1, EmptyList
<1>12. Ready(u, h)
  BY <1>7, <1>8, <1>9, <1>10, <1>11 DEF Ready
<1> QED BY <1>1, <1>2, <1>4, <1>6, <1>7, <1>12

-----------------------------------------------------------------------------
(* The sweep: the dead windows up to each handle are freed, in turn.        *)

SweptTo(t, g, m) ==
  \A k \in FIRST_HANDLE - 1 .. m :
    g[k] = IF k < FIRST_HANDLE THEN t
           ELSE IF k \in Sweepable(t) THEN Freed(g[k - 1], k) ELSE g[k - 1]

LEMMA SweepRuns ==
  ASSUME NEW t, NEW last \in FIRST_HANDLE - 1 .. MAX_HANDLES - 1
  PROVE  \E g : SweptTo(t, g, last)
<1> DEFINE N == FIRST_HANDLE - 1 .. MAX_HANDLES - 1
           B == {m \in N : ~ \E g : SweptTo(t, g, m)}
<1>1. \A m \in N : m \in Nat /\ (m # FIRST_HANDLE - 1 => m - 1 \in N /\ FIRST_HANDLE <= m)
  BY TableFacts
<1> SUFFICES ASSUME B # {} PROVE FALSE
  OBVIOUS
<1>2. B \in SUBSET Nat
  BY <1>1
<1>3. PICK m \in B : \A y \in B : m <= y
  BY <1>2, LeastOf
<1>4. m \in N /\ m \in Nat /\ ~ \E g : SweptTo(t, g, m)
  BY <1>1
<1>5. CASE m = FIRST_HANDLE - 1
  <2> DEFINE e == [k \in N |-> t]
  <2>1. \A k \in FIRST_HANDLE - 1 .. m : k \in N /\ k < FIRST_HANDLE
    BY <1>4, <1>5, TableFacts
  <2>2. SweptTo(t, e, m)
    BY <2>1 DEF SweptTo
  <2> QED BY <1>4, <2>2
<1>6. CASE m # FIRST_HANDLE - 1
  <2>1. m - 1 \in N /\ FIRST_HANDLE <= m /\ m - 1 < m
    BY <1>1, <1>4, <1>6
  <2>2. m - 1 \notin B
    BY <1>1, <1>3, <1>4, <2>1
  <2>3. PICK g : SweptTo(t, g, m - 1)
    BY <2>1, <2>2
  <2> DEFINE e == [k \in N |-> IF k < m THEN g[k]
                               ELSE IF m \in Sweepable(t) THEN Freed(g[m - 1], m) ELSE g[m - 1]]
  <2>4. \A k \in FIRST_HANDLE - 1 .. m :
          k \in N /\ k \in Nat /\ (k >= FIRST_HANDLE => k - 1 \in N /\ k - 1 < m)
          /\ (k # m => k < m /\ k \in FIRST_HANDLE - 1 .. m - 1)
    BY <1>4, TableFacts
  <2>5. \A k \in N : k < m => e[k] = g[k]
    OBVIOUS
  <2>6. e[m] = IF m \in Sweepable(t) THEN Freed(g[m - 1], m) ELSE g[m - 1]
    BY <1>4
  <2> HIDE DEF e
  <2>7. ASSUME NEW k \in FIRST_HANDLE - 1 .. m
        PROVE  e[k] = IF k < FIRST_HANDLE THEN t
                      ELSE IF k \in Sweepable(t) THEN Freed(e[k - 1], k) ELSE e[k - 1]
    <3>1. CASE k = m
      <4>1. ~(k < FIRST_HANDLE) /\ e[k - 1] = g[m - 1]
        BY <1>4, <2>1, <2>5, <3>1, TableFacts
      <4> QED BY <2>6, <3>1, <4>1
    <3>2. CASE k # m
      <4>1. e[k] = g[k] /\ k \in FIRST_HANDLE - 1 .. m - 1
        BY <2>4, <2>5, <3>2
      <4>2. g[k] = IF k < FIRST_HANDLE THEN t
                   ELSE IF k \in Sweepable(t) THEN Freed(g[k - 1], k) ELSE g[k - 1]
        BY <2>3, <4>1 DEF SweptTo
      <4>3. CASE k < FIRST_HANDLE
        BY <4>1, <4>2, <4>3
      <4>4. CASE ~(k < FIRST_HANDLE)
        <5>1. e[k - 1] = g[k - 1]
          BY <2>4, <2>5, <4>4, TableFacts
        <5> QED BY <4>1, <4>2, <4>4, <5>1
      <4> QED BY <4>3, <4>4
    <3> QED BY <3>1, <3>2
  <2>8. SweptTo(t, e, m)
    BY <2>7 DEF SweptTo
  <2> QED BY <1>4, <2>8
<1> QED BY <1>5, <1>6

LEMMA SweptBy ==
  ASSUME NEW t
  PROVE  \E g : SweptTo(t, g, MAX_HANDLES - 1) /\ Swept(t) = g[t.next_free - 1]
<1> DEFINE N == FIRST_HANDLE - 1 .. MAX_HANDLES - 1
           Def(g) == [k \in N |-> IF k < FIRST_HANDLE THEN t
                       ELSE IF k \in Sweepable(t) THEN Freed(g[k - 1], k) ELSE g[k - 1]]
           by == CHOOSE g : g = Def(g)
<1>1. \A k \in N : k \in Nat /\ (~(k < FIRST_HANDLE) => k - 1 \in N)
  BY TableFacts
<1>2. MAX_HANDLES - 1 \in N
  BY TableFacts
<1>3. PICK g : SweptTo(t, g, MAX_HANDLES - 1)
  BY <1>2, SweepRuns
<1> DEFINE w == [k \in N |-> g[k]]
<1>4. \A k \in N : w[k] = Def(w)[k]
  <2> SUFFICES ASSUME NEW k \in N PROVE w[k] = Def(w)[k]
    OBVIOUS
  <2>1. g[k] = IF k < FIRST_HANDLE THEN t
               ELSE IF k \in Sweepable(t) THEN Freed(g[k - 1], k) ELSE g[k - 1]
    BY <1>3 DEF SweptTo
  <2>2. ~(k < FIRST_HANDLE) => w[k - 1] = g[k - 1]
    BY <1>1
  <2> QED BY <2>1, <2>2
<1>5. w = Def(w)
  BY <1>4
<1>6. by = Def(by)
  <2> HIDE DEF Def
  <2> QED BY <1>5
<1>7. Swept(t) = by[t.next_free - 1]
  BY DEF Swept
<1>8. SweptTo(t, by, MAX_HANDLES - 1)
  <2> HIDE DEF by
  <2> QED BY <1>6 DEF SweptTo
<1> QED BY <1>7, <1>8

\* What is dead up to k.
DeadTo(t, k) == {h \in Dead(t) : h <= k}

LEMMA SweptKeeps ==
  ASSUME NEW t, TabInv(t)
  PROVE  TabInv(Swept(t)) /\ SameBut(t, Swept(t), Dead(t))
<1> DEFINE N == FIRST_HANDLE - 1 .. MAX_HANDLES - 1
<1>1. PICK g : SweptTo(t, g, MAX_HANDLES - 1) /\ Swept(t) = g[t.next_free - 1]
  BY SweptBy
<1>2. \A k \in N : k \in Nat /\ (~(k < FIRST_HANDLE) => k - 1 \in N)
  BY TableFacts
<1>3. t \in TableType /\ Used(t) \subseteq GivenOut(t) /\ Dead(t) \subseteq Used(t)
  BY DEF TabInv, Filed, Dead
<1>4. /\ GivenOut(t) \subseteq Entries /\ \A h \in GivenOut(t) : h < t.next_free
      /\ t.next_free \in Nat /\ t.next_free - 1 \in N
  BY <1>3, TableParts, TableFacts
<1>5. \A h \in Dead(t) : h \in Nat /\ FIRST_HANDLE <= h /\ h <= t.next_free - 1
  BY <1>3, <1>4, TableFacts DEF Entries
<1> DEFINE Fine(k) == TabInv(g[k]) /\ SameBut(t, g[k], DeadTo(t, k))
           B == {k \in N : ~Fine(k)}
<1>6. \A k \in N : Fine(k)
  <2> SUFFICES ASSUME B # {} PROVE FALSE
    OBVIOUS
  <2>1. B \in SUBSET Nat
    BY <1>2
  <2>2. PICK k \in B : \A y \in B : k <= y
    BY <2>1, LeastOf
  <2>3. k \in N /\ k \in Nat /\ ~Fine(k)
    BY <1>2
  <2>4. g[k] = IF k < FIRST_HANDLE THEN t
               ELSE IF k \in Sweepable(t) THEN Freed(g[k - 1], k) ELSE g[k - 1]
    BY <1>1, <2>3 DEF SweptTo
  <2>5. CASE k < FIRST_HANDLE
    <3>1. g[k] = t
      BY <2>4, <2>5
    <3>2. DeadTo(t, k) = {}
      BY <1>5, <2>3, <2>5, TableFacts DEF DeadTo
    <3>3. SameBut(t, t, {})
      BY DEF SameBut
    <3> QED BY <2>3, <3>1, <3>2, <3>3
  <2>6. CASE ~(k < FIRST_HANDLE)
    <3>1. k - 1 \in N
      BY <1>2, <2>3, <2>6
    <3>2. k - 1 \notin B
      BY <2>2, <2>3, <3>1
    <3>3. PICK u : u = g[k - 1]
      OBVIOUS
    <3>4. TabInv(u) /\ SameBut(t, u, DeadTo(t, k - 1))
      BY <3>1, <3>2, <3>3
    <3>5. CASE k \in Dead(t)
      <4>1. g[k] = Freed(u, k)
        BY <2>4, <2>6, <3>3, <3>5 DEF Sweepable
      <4>2. Used(u) = Used(t) \ DeadTo(t, k - 1)
        BY <3>4 DEF SameBut
      <4>3. k \in Used(u)
        BY <1>3, <2>3, <3>5, <4>2 DEF DeadTo
      <4>4. PICK v : v = Freed(u, k)
        OBVIOUS
      <4>5. TabInv(v) /\ SameBut(u, v, {k})
        BY <3>4, <4>3, <4>4, FreedKeeps
      <4>6. DeadTo(t, k) = DeadTo(t, k - 1) \cup {k}
        <5>1. \A h \in Dead(t) : h <= k <=> (h <= k - 1 \/ h = k)
          BY <1>5, <2>3
        <5>2. \A h : h \in DeadTo(t, k) <=> h \in Dead(t) /\ h <= k
          BY DEF DeadTo
        <5>3. \A h : h \in DeadTo(t, k - 1) <=> h \in Dead(t) /\ h <= k - 1
          BY DEF DeadTo
        <5> QED BY <3>5, <5>1, <5>2, <5>3, Zenon
      <4>7. Used(v) = Used(t) \ DeadTo(t, k)
        BY <4>2, <4>5, <4>6 DEF SameBut
      <4>8. SameBut(t, v, DeadTo(t, k))
        <5>1. v.next_free = t.next_free
          BY <3>4, <4>5 DEF SameBut
        <5>2. \A h \in Used(v) : h \in Used(u) /\ v.tab[h].host = t.tab[h].host
                                 /\ v.tab[h].type = t.tab[h].type
          BY <3>4, <4>5 DEF SameBut
        <5> QED BY <4>7, <5>1, <5>2 DEF SameBut
      <4> QED BY <2>3, <4>1, <4>4, <4>5, <4>8
    <3>6. CASE k \notin Dead(t)
      <4>1. g[k] = u
        BY <2>4, <2>6, <3>3, <3>6 DEF Sweepable
      <4>2. DeadTo(t, k) = DeadTo(t, k - 1)
        BY <1>5, <2>3, <3>6 DEF DeadTo
      <4> QED BY <2>3, <3>4, <4>1, <4>2
    <3> QED BY <3>5, <3>6
  <2> QED BY <2>5, <2>6
<1>7. DeadTo(t, t.next_free - 1) = Dead(t)
  BY <1>5 DEF DeadTo
<1>8. Fine(t.next_free - 1)
  BY <1>4, <1>6
<1> QED BY <1>1, <1>7, <1>8

\* And then nothing is dead, and what was makes room.
LEMMA SweptRoom ==
  ASSUME NEW t, TabInv(t)
  PROVE  Dead(Swept(t)) = {} /\ (Dead(t) # {} => Swept(t).free_head # 0)
<1>1. PICK u : u = Swept(t)
  OBVIOUS
<1>2. TabInv(u) /\ SameBut(t, u, Dead(t))
  BY <1>1, SweptKeeps
<1>3. Used(u) = Used(t) \ Dead(t) /\ u.next_free = t.next_free
      /\ \A h \in Used(u) : u.tab[h].host = t.tab[h].host /\ u.tab[h].type = t.tab[h].type
  BY <1>2 DEF SameBut
<1>4. Dead(u) = {}
  <2>1. \A h \in Used(u) : ~(u.tab[h].type = "WND" /\ u.tab[h].host \notin windows)
    <3> SUFFICES ASSUME NEW h \in Used(u), u.tab[h].type = "WND", u.tab[h].host \notin windows
                 PROVE  FALSE
      OBVIOUS
    <3>1. h \in Used(t) /\ h \notin Dead(t) /\ t.tab[h].type = "WND" /\ t.tab[h].host \notin windows
      BY <1>3
    <3> QED BY <3>1 DEF Dead
  <2> QED BY <2>1 DEF Dead
<1>5. ASSUME NEW h \in Dead(t) PROVE u.free_head # 0
  <2>1. h \in Used(t) /\ Used(t) \subseteq GivenOut(t)
    BY DEF TabInv, Filed, Dead
  <2>2. GivenOut(u) = GivenOut(t)
    BY <1>3 DEF GivenOut
  <2>3. h \in GivenOut(u) \ Used(u)
    BY <1>3, <2>1, <2>2
  <2>4. IsList(Links(u), u.free_head, GivenOut(u) \ Used(u))
    BY <1>2 DEF TabInv
  <2> QED BY <2>3, <2>4, ListClosed
<1> QED BY <1>1, <1>4, <1>5

-----------------------------------------------------------------------------
(* The map's invariant, and each action.                                    *)

HandleInv ==
  /\ TabInv(table)
  /\ since_sweep \in 0 .. SWEEP_EVERY
  /\ windows \subseteq Host
  /\ refused \in Nat /\ refused <= since_sweep /\ refused < SWEEP_EVERY
  /\ handleRet \in Entries \cup {0}

\* What lives has, after the step, the handle it had.
LivingStay ==
  \A h \in Used(table) \ Dead(table) :
    /\ table'.tab[h].host = table.tab[h].host
    /\ table'.tab[h].type = table.tab[h].type

\* No step of the map takes the handle of what lives, but one that says so.
StepStays == (handleRet' # 0 \/ since_sweep' # since_sweep) => LivingStay

LEMMA CountedFacts ==
  ASSUME HandleInv
  PROVE  /\ Counted(since_sweep) \in 0 .. SWEEP_EVERY
         /\ Counted(since_sweep) < SWEEP_EVERY => Counted(since_sweep) = since_sweep + 1
         /\ SWEEP_EVERY \in Nat /\ 0 < SWEEP_EVERY /\ SWEEP_FIRST <= MAX_HANDLES
         /\ refused \in Nat /\ since_sweep \in Nat /\ refused <= since_sweep
<1>1. SWEEP_EVERY \in Nat /\ 0 < SWEEP_EVERY
  BY SweepAssumption
<1>2. SWEEP_FIRST <= MAX_HANDLES
  BY SweepAssumption, TableFacts
<1>3. since_sweep \in 0 .. SWEEP_EVERY /\ refused \in Nat /\ refused <= since_sweep
  BY DEF HandleInv
<1> QED BY <1>1, <1>2, <1>3 DEF Counted

\* A host handle that is not found has no entry.
LEMMA NotFound ==
  ASSUME NEW t, Filed(t), NEW type, NEW host \in Host, Found(t, type, host) = {}
  PROVE  NoneFor(t, type, host)
<1>1. PICK b : b = hash_of(host)
  OBVIOUS
<1>2. b \in Buckets
  BY <1>1, HashFacts
<1>3. Walk(t, t.hash_head[b]) = InBucket(t, b)
  BY <1>2, WalkBucket
<1>4. ASSUME NEW g \in Used(t), t.tab[g].host = host, t.tab[g].type = type PROVE FALSE
  <2>1. g \in InBucket(t, b)
    BY <1>1, <1>4 DEF InBucket
  <2>2. g \in Found(t, type, host)
    BY <1>1, <1>3, <1>4, <2>1 DEF Found
  <2> QED BY <2>2
<1> QED BY <1>4 DEF NoneFor

\* The table a request goes on with: swept when that is due.
SweptIfDue(t, since) == IF SweepDue(t, since) THEN Swept(t) ELSE t

LEMMA SweptIfDueKeeps ==
  ASSUME NEW since, HandleInv, NEW t, t = SweptIfDue(table, since)
  PROVE  /\ TabInv(t) /\ Used(t) \subseteq Used(table)
         /\ \A h \in Used(t) : /\ t.tab[h].host = table.tab[h].host
                               /\ t.tab[h].type = table.tab[h].type
         /\ \A h \in Used(table) \ Dead(table) : h \in Used(t)
         /\ SweepDue(table, since) => Dead(t) = {}
         /\ ~SweepDue(table, since) => t = table
<1>1. TabInv(table)
  BY DEF HandleInv
<1>2. CASE SweepDue(table, since)
  <2>1. t = Swept(table)
    BY <1>2 DEF SweptIfDue
  <2>2. TabInv(t) /\ SameBut(table, t, Dead(table)) /\ Dead(t) = {}
    BY <1>1, <2>1, SweptKeeps, SweptRoom
  <2> QED BY <1>2, <2>2 DEF SameBut
<1>3. CASE ~SweepDue(table, since)
  <2>1. t = table
    BY <1>3 DEF SweptIfDue
  <2> QED BY <1>1, <1>3, <2>1
<1> QED BY <1>2, <1>3

LEMMA h16Steps ==
  ASSUME HandleInv, NEW type \in Type, NEW host \in Host, h16(type, host)
  PROVE  HandleInv' /\ LivingStay
<1>1. TabInv(table) /\ Filed(table) /\ Used(table) \subseteq Entries
  BY TableParts DEF HandleInv, TabInv, Filed
<1>2. CASE /\ handleRet' \in Found(table, type, host)
           /\ UNCHANGED <<table, since_sweep, windows, refused>>
  <2>1. \A h \in Found(table, type, host) : h \in Entries
    <3>1. PICK b : b = hash_of(host)
      OBVIOUS
    <3>2. b \in Buckets
      BY <3>1, HashFacts
    <3>3. Walk(table, table.hash_head[b]) = InBucket(table, b)
      BY <1>1, <3>2, WalkBucket
    <3> QED BY <1>1, <3>1, <3>3 DEF Found, InBucket
  <2>2. HandleInv'
    BY <1>2, <2>1 DEF HandleInv
  <2>3. LivingStay
    BY <1>2 DEF LivingStay
  <2> QED BY <2>2, <2>3
<1>3. ASSUME NEW since, since = Counted(since_sweep), NEW t, t = SweptIfDue(table, since),
             Found(table, type, host) = {},
             since_sweep' = IF SweepDue(table, since) THEN 0 ELSE since,
             UNCHANGED windows,
             \/ /\ t.free_head # 0
                /\ table' = Entered(Popped(t), t.free_head, type, host)
                /\ handleRet' = t.free_head
                /\ refused' = 0
             \/ /\ t.free_head = 0 /\ t.next_free < MAX_HANDLES
                /\ table' = Entered([t EXCEPT !.next_free = @ + 1], t.next_free, type, host)
                /\ handleRet' = t.next_free
                /\ refused' = 0
             \/ /\ t.free_head = 0 /\ t.next_free = MAX_HANDLES
                /\ table' = t
                /\ handleRet' = 0
                /\ refused' = IF Dead(t) = {} THEN 0 ELSE refused + 1
      PROVE  HandleInv' /\ LivingStay
  <2>1. /\ TabInv(t) /\ Used(t) \subseteq Used(table)
        /\ \A h \in Used(t) : /\ t.tab[h].host = table.tab[h].host
                              /\ t.tab[h].type = table.tab[h].type
        /\ \A h \in Used(table) \ Dead(table) : h \in Used(t)
        /\ SweepDue(table, since) => Dead(t) = {}
        /\ ~SweepDue(table, since) => t = table
    BY <1>3, SweptIfDueKeeps
  <2>2. NoneFor(t, type, host)
    <3>1. NoneFor(table, type, host)
      BY <1>1, <1>3, NotFound
    <3> QED BY <2>1, <3>1 DEF NoneFor
  <2>3. /\ since \in 0 .. SWEEP_EVERY
        /\ since < SWEEP_EVERY => since = since_sweep + 1
        /\ SWEEP_EVERY \in Nat /\ 0 < SWEEP_EVERY /\ SWEEP_FIRST <= MAX_HANDLES
        /\ refused \in Nat /\ since_sweep \in Nat /\ refused <= since_sweep
    BY <1>3, CountedFacts
  <2>4. since_sweep' \in 0 .. SWEEP_EVERY /\ 0 <= since_sweep'
    <3>1. since_sweep' = 0 \/ since_sweep' = since
      BY <1>3, Zenon
    <3> QED BY <2>3, <3>1
  <2>5. windows' \subseteq Host
    BY <1>3 DEF HandleInv
  <2>6. ASSUME NEW u, NEW h, Ready(u, h), Used(u) = Used(t), u.tab = t.tab, h \in Entries,
               table' = Entered(u, h, type, host), handleRet' = h, refused' = 0
        PROVE  HandleInv' /\ LivingStay
    <3>1. NoneFor(u, type, host)
      BY <2>2, <2>6 DEF NoneFor
    <3>2. TabInv(table') /\ \A g \in Used(t) : table'.tab[g] = t.tab[g]
      BY <2>6, <3>1, EnteredKeeps
    <3>3. LivingStay
      BY <2>1, <3>2 DEF LivingStay
    <3>4. HandleInv'
      BY <2>3, <2>4, <2>5, <2>6, <3>2 DEF HandleInv
    <3> QED BY <3>3, <3>4
  <2>7. CASE /\ t.free_head # 0
             /\ table' = Entered(Popped(t), t.free_head, type, host)
             /\ handleRet' = t.free_head
             /\ refused' = 0
    <3>1. PICK u : u = Popped(t)
      OBVIOUS
    <3>2. Ready(u, t.free_head) /\ Used(u) = Used(t) /\ u.tab = t.tab /\ t.free_head \in Entries
      BY <2>1, <2>7, <3>1, PoppedReady
    <3> QED BY <2>6, <2>7, <3>1, <3>2
  <2>8. CASE /\ t.free_head = 0 /\ t.next_free < MAX_HANDLES
             /\ table' = Entered([t EXCEPT !.next_free = @ + 1], t.next_free, type, host)
             /\ handleRet' = t.next_free
             /\ refused' = 0
    <3>1. PICK u : u = [t EXCEPT !.next_free = @ + 1]
      OBVIOUS
    <3>2. Ready(u, t.next_free) /\ Used(u) = Used(t) /\ u.tab = t.tab /\ t.next_free \in Entries
      BY <2>1, <2>8, <3>1, FreshReady
    <3> QED BY <2>6, <2>8, <3>1, <3>2
  <2>9. CASE /\ t.free_head = 0 /\ t.next_free = MAX_HANDLES
             /\ table' = t
             /\ handleRet' = 0
             /\ refused' = IF Dead(t) = {} THEN 0 ELSE refused + 1
    <3>1. LivingStay
      BY <2>1, <2>9 DEF LivingStay
    <3>2. refused' \in Nat /\ refused' <= since_sweep' /\ refused' < SWEEP_EVERY
      <4>1. CASE Dead(t) = {}
        <5>1. refused' = 0
          BY <2>9, <4>1
        <5> QED BY <2>3, <2>4, <5>1
      <4>2. CASE Dead(t) # {}
        <5>1. ~SweepDue(table, since) /\ t = table
          BY <2>1, <4>2
        <5>2. table.free_head = 0 /\ table.next_free >= SWEEP_FIRST
          BY <2>3, <2>9, <5>1
        <5>3. ~(since >= SWEEP_EVERY)
          BY <5>1, <5>2 DEF SweepDue
        <5>4. since_sweep' = since /\ since = since_sweep + 1 /\ since < SWEEP_EVERY
          <6>1. since_sweep' = since
            BY <1>3, <5>1, Zenon
          <6> QED BY <2>3, <5>3, <6>1
        <5>5. refused' = refused + 1
          BY <2>9, <4>2
        <5> QED BY <2>3, <5>4, <5>5
      <4> QED BY <4>1, <4>2
    <3>3. HandleInv'
      BY <2>1, <2>4, <2>5, <2>9, <3>2 DEF HandleInv
    <3> QED BY <3>1, <3>3
  <2> QED BY <1>3, <2>7, <2>8, <2>9
<1>4. \/ /\ handleRet' \in Found(table, type, host)
         /\ UNCHANGED <<table, since_sweep, windows, refused>>
      \/ LET since == Counted(since_sweep)
             t     == SweptIfDue(table, since)
         IN
         /\ Found(table, type, host) = {}
         /\ since_sweep' = IF SweepDue(table, since) THEN 0 ELSE since
         /\ UNCHANGED windows
         /\ \/ /\ t.free_head # 0
               /\ table' = Entered(Popped(t), t.free_head, type, host)
               /\ handleRet' = t.free_head
               /\ refused' = 0
            \/ /\ t.free_head = 0 /\ t.next_free < MAX_HANDLES
               /\ table' = Entered([t EXCEPT !.next_free = @ + 1], t.next_free, type, host)
               /\ handleRet' = t.next_free
               /\ refused' = 0
            \/ /\ t.free_head = 0 /\ t.next_free = MAX_HANDLES
               /\ table' = t
               /\ handleRet' = 0
               /\ refused' = IF Dead(t) = {} THEN 0 ELSE refused + 1
  BY DEF h16, SweptIfDue
<1> QED BY <1>2, <1>3, <1>4

LEMMA h_releaseSteps ==
  ASSUME HandleInv, NEW h \in Entries, h_release(h)
  PROVE  HandleInv' /\ handleRet' = 0 /\ since_sweep' = since_sweep
<1>1. TabInv(table')
  <2>1. CASE Known(h)
    <3>1. h \in Used(table)
      BY <2>1 DEF Known, Used
    <3> QED BY <2>1, <3>1, FreedKeeps DEF h_release, HandleInv
  <2>2. CASE ~Known(h)
    BY <2>2 DEF h_release, HandleInv
  <2> QED BY <2>1, <2>2
<1> QED BY <1>1 DEF h_release, HandleInv

LEMMA HandleSteps ==
  ASSUME HandleInv, HandleNext PROVE HandleInv' /\ StepStays
<1>1. CASE \E host \in windows : h16("WND", host)
  <2>1. PICK host \in windows : h16("WND", host)
    BY <1>1
  <2>2. host \in Host /\ "WND" \in Type
    BY DEF HandleInv, Type
  <2> QED BY <2>1, <2>2, h16Steps DEF StepStays
<1>2. CASE \E type \in Other, host \in Host : h16(type, host)
  <2>1. PICK type \in Other, host \in Host : h16(type, host)
    BY <1>2
  <2>2. type \in Type
    BY DEF Type
  <2> QED BY <2>1, <2>2, h16Steps DEF StepStays
<1>3. CASE \E h \in Entries : h_release(h)
  BY <1>3, h_releaseSteps DEF StepStays
<1>4. CASE \E host \in Host : HostCreates(host) \/ HostDestroys(host)
  <2>1. PICK host \in Host : HostCreates(host) \/ HostDestroys(host)
    BY <1>4
  <2>2. /\ UNCHANGED <<table, since_sweep, refused>> /\ handleRet' = 0
        /\ windows' \subseteq windows \cup {host}
    BY <2>1 DEF HostCreates, HostDestroys
  <2> QED BY <2>2 DEF HandleInv, StepStays
<1> QED BY <1>1, <1>2, <1>3, <1>4 DEF HandleNext

LEMMA HandleStarts ==
  ASSUME HandleInit PROVE HandleInv
<1>1. /\ table.tab = [h \in Entries |-> Blank] /\ table.hash_head = [b \in Buckets |-> 0]
      /\ table.free_head = 0 /\ table.next_free = FIRST_HANDLE /\ table.live = 0
  BY DEF HandleInit, Buckets
<1>2. table \in TableType
  <2>1. Blank \in EntryType
    BY DEF Blank, Entry, EntryType
  <2>2. FIRST_HANDLE \in FIRST_HANDLE .. MAX_HANDLES
    BY TableFacts
  <2> QED BY <2>1, <2>2 DEF HandleInit, TableType, Buckets
<1>3. Used(table) = {}
  BY <1>1 DEF Used, Blank, Entry
<1>4. GivenOut(table) = {}
  BY <1>1, TableFacts DEF GivenOut
<1>5. \A b \in Buckets : table.hash_head[b] = 0 /\ InBucket(table, b) = {}
  BY <1>1, <1>3 DEF InBucket
<1>6. \A b \in Buckets : IsList(Links(table), table.hash_head[b], InBucket(table, b))
  BY <1>5, EmptyList
<1>7. IsList(Links(table), table.free_head, GivenOut(table) \ Used(table))
  <2>1. GivenOut(table) \ Used(table) = {}
    BY <1>4
  <2> QED BY <1>1, <2>1, EmptyList
<1>8. table.live = Cardinality(Used(table))
  BY <1>1, <1>3, FS_EmptySet
<1>9. OneEach(table)
  BY <1>3 DEF OneEach
<1>10. TabInv(table)
  BY <1>2, <1>3, <1>6, <1>7, <1>8, <1>9 DEF TabInv, Filed
<1>11. SWEEP_EVERY \in Nat /\ 0 < SWEEP_EVERY
  BY SweepAssumption
<1> QED BY <1>10, <1>11 DEF HandleInit, HandleInv

LEMMA HandleHonest ==
  ASSUME HandleInv
  PROVE  HandleTypeOK /\ Accounted /\ ChainsHoldUsed /\ OneHandleEach /\ RefusedBriefly
<1>1. /\ table \in TableType /\ Used(table) \subseteq GivenOut(table)
      /\ table.live = Cardinality(Used(table)) /\ OneEach(table) /\ Filed(table)
      /\ IsList(Links(table), table.free_head, GivenOut(table) \ Used(table))
  BY DEF HandleInv, TabInv, Filed
<1>2. table.live \in 0 .. MAX_HANDLES - FIRST_HANDLE
  <2>1. IsFiniteSet(Used(table)) /\ Cardinality(Used(table)) <= Cardinality(Entries)
    BY <1>1, TableParts, TableFacts, FS_Subset
  <2>2. Cardinality(Used(table)) \in Nat
    BY <2>1, FS_CardinalityType
  <2> QED BY <1>1, <2>1, <2>2, TableFacts
<1>3. HandleTypeOK
  BY <1>1, <1>2 DEF HandleInv, HandleTypeOK, TableType, EntryType, Buckets
<1>4. Accounted
  <2>1. Walk(table, table.free_head) = GivenOut(table) \ Used(table)
    BY <1>1, WalkIsList
  <2> QED BY <1>1, <2>1 DEF Accounted, GivenOut
<1>5. ChainsHoldUsed
  <2>1. DOMAIN table.hash_head = Buckets
    BY <1>1 DEF TableType
  <2>2. \A b \in Buckets : Walk(table, table.hash_head[b]) = InBucket(table, b)
    BY <1>1, WalkBucket
  <2> QED BY <2>1, <2>2 DEF ChainsHoldUsed, InBucket
<1>6. OneHandleEach
  BY <1>1 DEF OneEach, OneHandleEach
<1>7. RefusedBriefly
  BY DEF HandleInv, RefusedBriefly
<1> QED BY <1>3, <1>4, <1>5, <1>6, <1>7

\* The handle table loses no entry and shares none, its chains find what is
\* used, a full one recovers, and what is alive keeps its handle through
\* requests and sweeps (handle.c:30, 37; handle.h:23), whatever its size.
THEOREM HandlesAlwaysHonest == HandleSpec => HandlesHonest
<1>1. HandleInit => HandleInv
  BY HandleStarts
<1>2. HandleInv /\ [HandleNext]_handleVars => HandleInv'
  <2>1. CASE UNCHANGED handleVars
    BY <2>1 DEF handleVars, HandleInv
  <2> QED BY <2>1, HandleSteps
<1>3. HandleInv => HandleTypeOK /\ Accounted /\ ChainsHoldUsed /\ OneHandleEach /\ RefusedBriefly
  BY HandleHonest
<1>4. HandleInv /\ [HandleNext]_handleVars =>
        [\A h \in Used(table) \ Dead(table) :
           (handleRet' # 0 \/ since_sweep' # since_sweep) =>
             /\ table'.tab[h].host = table.tab[h].host
             /\ table'.tab[h].type = table.tab[h].type]_handleVars
  BY HandleSteps DEF StepStays, LivingStay
<1> QED BY <1>1, <1>2, <1>3, <1>4, PTL DEF HandleSpec, HandlesHonest, LiveStay
=============================================================================
