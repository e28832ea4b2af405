----------------------------- MODULE GlobalHeap -----------------------------
(***************************************************************************)
(* The global heap of src/heap.c over the selector arena: the gmem table,  *)
(* one entry per selector index, and the KERNEL calls that reach it.  The  *)
(* loader and the emulator itself take selectors from the same arena (code *)
(* and data segments, the PSP, the thunk segment) and never give one back. *)
(*                                                                         *)
(* A handle is the block's first selector, or one less than it if the      *)
(* block is moveable; gmem_sel turns either back into the selector.        *)
(***************************************************************************)
EXTENDS Selectors

CONSTANTS
  Sizes,     \* the sizes programs ask for
  LOCK_MAX,  \* where the lock count sticks (0xFF)
  Moveable   \* what the GMEM_MOVEABLE flag of a request may be

ASSUME SizesAssumption == Sizes \subseteq 0 .. SIZE_MOD - 1
ASSUME LockAssumption  == LOCK_MAX \in Nat
ASSUME MoveableAssumption == Moveable \subseteq BOOLEAN

VARIABLES
  gmem,      \* what heap.c knows of the block that starts at an index
  segments   \* the heads the loader and the emulator hold

vars == <<selvars, gmem, segments>>

NoBlock == [size |-> 0, used |-> FALSE, lock |-> 0, moveable |-> FALSE]

SelMake(i)  == 8 * i + 7
SelIndex(s) == s \div 8

(* gmem_sel: handle | 7, whichever form the handle has.                    *)
GmemSel(h) == 8 * (h \div 8) + 7

(* The handle gmem_alloc returns for a block that starts at index i.       *)
HandleOf(i, moveable) == IF moveable THEN SelMake(i) - 1 ELSE SelMake(i)

Handle == {HandleOf(i, m) : i \in Index, m \in BOOLEAN}

(* The index a handle names; 0, which no block has, if it names none.      *)
Named(h) == SelIndex(GmemSel(h))

Valid(h) == gmem[Named(h)].used

NewBlock(bytes, moveable) ==
  [size |-> bytes, used |-> TRUE, lock |-> 0, moveable |-> moveable]

Init ==
  /\ SelInit
  /\ gmem = [i \in Index |-> NoBlock]
  /\ segments = {}

-----------------------------------------------------------------------------
(* sel_alloc of `size` bytes at `start`, the whole of its effect.          *)
SelAlloc(start, size, kind) ==
  /\ FirstFit(start, SlotCount(size))
  /\ sel_tab'  = Taken(sel_tab, start, size, kind)
  /\ sel_live' = Marked(sel_live, start, SlotCount(size), TRUE)
  /\ sel_next' = NextAfterAlloc(sel_next, start, SlotCount(size))
  /\ arena'    = Zeroed(arena, start, SlotCount(size))

(* The loader's segments, the PSP, the environment, the thunk segments:    *)
(* sel_alloc of at most 64 KB each, and never sel_free.                    *)
LoadSegment(size, kind) ==
  /\ size <= SLOT
  /\ \E start \in Index :
       /\ SelAlloc(start, size, kind)
       /\ segments' = segments \cup {start}
  /\ UNCHANGED gmem

Request(bytes) == IF bytes = 0 THEN 1 ELSE bytes

GlobalAlloc(bytes, moveable) ==
  \/ /\ \E start \in Index :
          /\ SelAlloc(start, Request(bytes), "DATA")
          /\ gmem' = [gmem EXCEPT ![start] = NewBlock(Request(bytes), moveable)]
     /\ UNCHANGED segments
  \/ /\ SelAllocFails(Request(bytes))
     /\ UNCHANGED vars

(* GlobalReAlloc with GMEM_MODIFY: only the flag, and the same handle.     *)
ReAllocModify(h, moveable) ==
  /\ Valid(h)
  /\ gmem' = [gmem EXCEPT ![Named(h)].moveable = moveable]
  /\ UNCHANGED <<selvars, segments>>

(* GlobalReAlloc to no more than the block has: the selectors stay.        *)
ReAllocShrink(h, bytes) ==
  /\ Valid(h)
  /\ Request(bytes) <= gmem[Named(h)].size
  /\ gmem' = [gmem EXCEPT ![Named(h)].size = Request(bytes)]
  /\ UNCHANGED <<selvars, segments>>

(* memcpy of `keep` bytes from the block at i to the one at `start`.       *)
Copied(mem, i, start, keep) ==
  [a \in DOMAIN mem |->
     IF a \in start * SLOT .. start * SLOT + keep - 1
     THEN mem[i * SLOT + (a - start * SLOT)]
     ELSE mem[a]]

(* GlobalReAlloc to more: a new block, the old bytes, and the old block    *)
(* freed, in that order, so the new one never reuses the old one's slots.  *)
ReAllocMove(h, bytes, moveable) ==
  LET i == Named(h)
      n == SlotCount(bytes)
  IN
  /\ Valid(h)
  /\ bytes > gmem[i].size
  /\ \E start \in Index :
       /\ FirstFit(start, n)
       /\ sel_tab'  = Released(Taken(sel_tab, start, bytes, "DATA"), i)
       /\ sel_live' = Marked(Marked(sel_live, start, n, TRUE),
                             i, FreeCount(sel_tab, i), FALSE)
       /\ sel_next' = NextAfterFree(NextAfterAlloc(sel_next, start, n), i)
       /\ arena'    = Copied(Zeroed(arena, start, n), i, start, gmem[i].size)
       /\ gmem'     = [gmem EXCEPT ![start] = NewBlock(bytes, moveable),
                                   ![i] = NoBlock]
  /\ UNCHANGED segments

(* No room for the new block: 0, and the old one is as it was.             *)
ReAllocFail(h, bytes) ==
  /\ Valid(h)
  /\ bytes > gmem[Named(h)].size
  /\ SelAllocFails(bytes)
  /\ UNCHANGED vars

GlobalFree(h) ==
  LET i == Named(h) IN
  /\ Valid(h)
  /\ gmem' = [gmem EXCEPT ![i] = NoBlock]
  /\ sel_tab'  = Released(sel_tab, i)
  /\ sel_live' = Marked(sel_live, i, FreeCount(sel_tab, i), FALSE)
  /\ sel_next' = NextAfterFree(sel_next, i)
  /\ UNCHANGED <<arena, segments>>

(* A handle that names no block changes nothing: every call returns early. *)
StaleHandle(h) ==
  /\ ~Valid(h)
  /\ UNCHANGED vars

GlobalLock(h) ==
  /\ Valid(h)
  /\ gmem[Named(h)].lock < LOCK_MAX
  /\ gmem' = [gmem EXCEPT ![Named(h)].lock = @ + 1]
  /\ UNCHANGED <<selvars, segments>>

GlobalUnlock(h) ==
  /\ Valid(h)
  /\ gmem[Named(h)].lock > 0
  /\ gmem' = [gmem EXCEPT ![Named(h)].lock = @ - 1]
  /\ UNCHANGED <<selvars, segments>>

(* A store by the program through selector index i, to any byte of its     *)
(* slot.  sel_ptr sends a store through a dead selector to the guard slot. *)
GuestWrite(i, off, v) ==
  /\ arena' = [arena EXCEPT ![IF sel_live[i] THEN i * SLOT + off ELSE off] = v]
  /\ UNCHANGED <<sel_tab, sel_live, sel_next, gmem, segments>>

Next ==
  \/ \E size \in Sizes, kind \in Kinds : LoadSegment(Request(size), kind)
  \/ \E bytes \in Sizes, m \in Moveable : GlobalAlloc(bytes, m)
  \/ \E h \in Handle :
       \/ \E m \in Moveable : ReAllocModify(h, m)
       \/ \E bytes \in Sizes : ReAllocShrink(h, bytes)
       \/ \E bytes \in Sizes, m \in Moveable : ReAllocMove(h, bytes, m)
       \/ \E bytes \in Sizes : ReAllocFail(h, bytes)
       \/ GlobalFree(h)
       \/ GlobalLock(h)
       \/ GlobalUnlock(h)
       \/ StaleHandle(h)
  \/ \E i \in Index, off \in 0 .. SLOT - 1, v \in Byte : GuestWrite(i, off, v)

Spec == Init /\ [][Next]_vars

-----------------------------------------------------------------------------
(***************************************************************************)
(* Properties.                                                             *)
(***************************************************************************)

GmemType == [size : 0 .. SIZE_MOD - 1, used : BOOLEAN,
             lock : 0 .. LOCK_MAX, moveable : BOOLEAN]

TableTypeOK ==
  /\ SelTypeOK
  /\ gmem \in [Index -> GmemType]
  /\ segments \in SUBSET Index

ArenaTypeOK == arena \in [Address -> Byte]

TypeOK == TableTypeOK /\ ArenaTypeOK

Held == {i \in Index : gmem[i].used}

(* Every block of the table has exactly one owner who can give it back or  *)
(* means to keep it: a head is a gmem entry in use or a segment, never     *)
(* both, and nothing else is.  A live slot that no owner could ever free   *)
(* (a leak), or an entry that outlives its slots, violates it.             *)
OneOwner ==
  /\ Heads(sel_tab) = Held \cup segments
  /\ Held \cap segments = {}

(* A block has room for what its owner was told it holds: gmem's size      *)
(* never exceeds the slots the table gives the block (sel.h:82, "Allocate  *)
(* `count` consecutive indices covering `size` bytes").                    *)
BlocksCoverSize ==
  \A i \in Index : gmem[i].used => gmem[i].size <= sel_tab[i].count * SLOT

(* The table of src/sel.c and the one of src/heap.c agree on every block:  *)
(* where it starts, how far it reaches, whose it is and how much it holds. *)
TableSound == LiveMirrorsKind /\ BlocksTile /\ OneOwner /\ BlocksCoverSize

(* What the program sees of the heap: each block it holds and its bytes.   *)
Contents(i) == [k \in 0 .. gmem[i].size - 1 |-> arena[i * SLOT + k]]

(* The heap keeps BlockStore's promise: no block's bytes change but by a   *)
(* store through that block, through every allocation, move and release of *)
(* the others, and a resize keeps what fits and zeroes the rest.           *)
Store == INSTANCE BlockStore
           WITH Name   <- Index,
                Size   <- {Request(s) : s \in Sizes},
                blocks <- [i \in Held |-> Contents(i)]

StoreSpec == Store!Spec
=============================================================================
