----------------------------- MODULE Selectors -----------------------------
(***************************************************************************)
(* The selector arena of src/sel.c: the table that stands for the LDT of a *)
(* 16-bit program.  A selector's index picks a slot of the arena directly, *)
(* so a block larger than one slot is a run of consecutive selectors and   *)
(* huge-pointer arithmetic needs no help.                                  *)
(*                                                                         *)
(* This module holds the state and what one call of sel_alloc or sel_free  *)
(* does to it, as functions of the table; GlobalHeap composes them.  The   *)
(* widths that matter are constants: SLOT and SIZE_MOD are 2^16 and 2^32   *)
(* in the program, COUNT_MOD is the 2^8 of the uint8_t in SelDesc, and     *)
(* SEL_LIMIT is 4096 in the emulator and at most 256 in the library        *)
(* (libstars.c's GUEST_SLOTS).                                             *)
(***************************************************************************)
EXTENDS Integers

CONSTANTS
  SEL_LIMIT,      \* indices below this may be handed out (sel_limit)
  SLOT,           \* bytes of address space behind one index (SEL_SLOT)
  SIZE_MOD,       \* sizes are unsigned of this modulus (uint32_t)
  COUNT_MOD,      \* SelDesc.count is unsigned of this modulus (uint8_t)
  HostMayRefuse,  \* the host may refuse to commit memory: the emulator only
  Byte            \* the byte values the guest writes

ASSUME LimitAssumption   == SEL_LIMIT \in Nat \ {0}
ASSUME SlotAssumption    == SLOT \in Nat \ {0}
ASSUME SizeModAssumption == SIZE_MOD \in Nat \ {0, 1}
ASSUME CountModAssumption == COUNT_MOD \in Nat \ {0}
ASSUME HostAssumption    == HostMayRefuse \in BOOLEAN
ASSUME ByteAssumption    == 0 \in Byte

VARIABLES
  sel_tab,    \* the descriptors
  sel_live,   \* the one-byte-per-index mirror that sel_ptr tests
  sel_next,   \* where the next search starts
  arena       \* the bytes behind the indices

selvars == <<sel_tab, sel_live, sel_next, arena>>

Index == 0 .. SEL_LIMIT - 1

Address == 0 .. SEL_LIMIT * SLOT - 1

Kinds == {"CODE", "DATA"}

SelDesc == [kind : Kinds \cup {"FREE"}, limit : 0 .. SIZE_MOD - 1,
            count : 0 .. COUNT_MOD - 1, head : BOOLEAN]

FreeDesc == [kind |-> "FREE", limit |-> 0, count |-> 0, head |-> FALSE]

SelInit ==
  /\ sel_tab  = [i \in Index |-> FreeDesc]
  /\ sel_live = [i \in Index |-> FALSE]
  /\ sel_next = 1
  /\ arena    = [a \in Address |-> 0]

-----------------------------------------------------------------------------
(***************************************************************************)
(* sel_alloc.                                                              *)
(***************************************************************************)

(* The slots a request takes: rounded up in 32 bits, and at least one.     *)
SlotCount(size) ==
  LET n == ((size + SLOT - 1) % SIZE_MOD) \div SLOT
  IN  IF size = 0 \/ n = 0 THEN 1 ELSE n

Run(start, n) == start .. start + n - 1

(* A run of n free slots at `start`, all of it under the limit.            *)
Fits(start, n) ==
  /\ start + n <= SEL_LIMIT
  /\ \A i \in Run(start, n) : sel_tab[i].kind = "FREE"

(* Where the search, which never looks below sel_next, could stop.         *)
Candidates(n) == {s \in Index : s >= sel_next /\ Fits(s, n)}

(* The search stops at the first run that fits.                            *)
FirstFit(start, n) ==
  /\ start \in Candidates(n)
  /\ \A s \in Candidates(n) : start <= s

(* sel_alloc returns 0: nothing fits, or the host does not commit.         *)
SelAllocFails(size) == HostMayRefuse \/ Candidates(SlotCount(size)) = {}

(* Every selector of a huge block carries the limit of the remainder.      *)
Taken(tab, start, size, kind) ==
  [i \in DOMAIN tab |->
     IF i \in Run(start, SlotCount(size))
     THEN [kind  |-> kind,
           limit |-> (size - (i - start) * SLOT - 1) % SIZE_MOD,
           count |-> SlotCount(size) % COUNT_MOD,
           head  |-> i = start]
     ELSE tab[i]]

Marked(live, start, n, flag) ==
  [i \in DOMAIN live |-> IF i \in Run(start, n) THEN flag ELSE live[i]]

\* A mistake it could have made: the descriptors are left as they were.
NotZeroed(mem, start, n) == mem

(* A slot handed out reads as zero.                                        *)
Zeroed(mem, start, n) ==
  [a \in DOMAIN mem |->
     IF a \in start * SLOT .. (start + n) * SLOT - 1 THEN 0 ELSE mem[a]]

NextAfterAlloc(next, start, n) == IF start + n > next THEN start + n ELSE next

-----------------------------------------------------------------------------
(***************************************************************************)
(* sel_free.  It trusts the count in the descriptor it is given.           *)
(***************************************************************************)

\* A mistake it could have made: one slot of a run is freed.
FreeOneSlot(tab, i) == 1

FreeCount(tab, i) == IF tab[i].count = 0 THEN 1 ELSE tab[i].count

Released(tab, i) ==
  [k \in DOMAIN tab |->
     IF k \in Run(i, FreeCount(tab, i)) THEN FreeDesc ELSE tab[k]]

NextAfterFree(next, i) == IF i < next THEN i ELSE next

-----------------------------------------------------------------------------
(***************************************************************************)
(* What the table is supposed to look like.                                *)
(***************************************************************************)

TabType == [Index -> SelDesc]

SelTypeOK ==
  /\ sel_tab  \in TabType
  /\ sel_live \in [Index -> BOOLEAN]
  /\ sel_next \in 1 .. SEL_LIMIT


Heads(tab) == {i \in Index : tab[i].kind # "FREE" /\ tab[i].head}

BlockAt(tab, i) == Run(i, tab[i].count)

(* A head is followed by count - 1 slots of its own kind that are not      *)
(* heads, and every live slot lies in the run of some head.                *)
Tiled(tab) ==
  /\ \A i \in Heads(tab) :
       /\ tab[i].count > 0
       /\ i + tab[i].count <= SEL_LIMIT
       /\ \A k \in BlockAt(tab, i) :
            /\ tab[k].kind = tab[i].kind
            /\ tab[k].head <=> k = i
  /\ \A j \in Index : tab[j].kind # "FREE" =>
       \E i \in Heads(tab) : j \in BlockAt(tab, i)

Mirrors(live, tab) == \A i \in Index : live[i] <=> tab[i].kind # "FREE"

(* The mirror that every guest read and write tests says the same as the   *)
(* table: it is set exactly where kind is not SK_FREE (sel.h:49-55).       *)
LiveMirrorsKind == Mirrors(sel_live, sel_tab)

(* The live slots are tiled by blocks, so no two blocks share a slot and   *)
(* none hangs off the end of the arena.  This is what makes it safe for    *)
(* sel_free to trust the count in the descriptor it is given.              *)
BlocksTile == Tiled(sel_tab)

(* Index 0 is never handed out: it is the slot a bad access resolves to    *)
(* (sel.c:13, "index 0 stays permanently invalid").                        *)
GuardSlotFree == sel_tab[0] = FreeDesc
=============================================================================
