----------------------------- MODULE LocalHeap -----------------------------
(***************************************************************************)
(* The local heap of src/heap.c: LocalAlloc, LocalReAlloc, LocalFree, over *)
(* a chain of blocks laid end to end in DGROUP, each behind a header of    *)
(* its size and whether it is used.                                        *)
(*                                                                         *)
(* Everything is counted in words of four bytes, the header's size and the *)
(* granularity of every block: a request of `w` words is one of 4w - 3 to  *)
(* 4w bytes.  A size or an offset wraps at SEG words, as a uint16_t does.  *)
(* The chain is the blocks reached from heap_base; a header swallowed by a *)
(* merge is no longer part of it.  The program holds only handles it was   *)
(* given, and gives each back at most once; DS is always DGROUP.           *)
(***************************************************************************)
EXTENDS Integers

CONSTANTS
  BASE,      \* heap_base: where the first block's header is
  END,       \* heap_end: past the last block
  SEG,       \* words in 64 KB: where uint16_t wraps
  Requests,  \* sizes, in words, the program asks for
  Stores,      \* what the program stores
  Dirt,      \* what a word nobody has written holds
  Hdr        \* a word that holds a header

ASSUME PlaceAssumption ==
  BASE \in Nat \ {0} /\ END \in Nat /\ SEG \in Nat /\ BASE + 2 <= END /\ END <= SEG
ASSUME RequestsAssumption == Requests \subseteq 0 .. SEG

VARIABLES
  chain,  \* the blocks: header offset -> size and used
  mem,    \* the words of the segment
  held,   \* the handles the program holds
  localRet     \* the last call: what it was given, what it answered

localVars == <<chain, mem, held, localRet>>

Word == 0 .. SEG - 1

Block(size, used) == [size |-> size, used |-> used]

(* A handle is the offset of the payload, one word past the header.        *)
HandleAt(off) == off + 1
HeaderOf(h) == h - 1

Called(op, from, want, h) == [op |-> op, from |-> from, want |-> want, h |-> h]

(* lmem_init: one free block that is everything.                           *)
LocalInit ==
  /\ chain = [off \in {BASE} |-> Block(END - BASE, FALSE)]
  /\ mem   = [w \in Word |-> IF w = BASE THEN Hdr ELSE Dirt]
  /\ held  = {}
  /\ localRet   = Called("init", 0, 0, 0)

-----------------------------------------------------------------------------
(***************************************************************************)
(* The chain.                                                              *)
(***************************************************************************)

Free(c) == {off \in DOMAIN c : ~c[off].used}

(* Where the free blocks that follow one another from `off` end: at the    *)
(* next used block or the end of the heap.                                 *)
Stops(c, off) == {e \in DOMAIN c \cup {END} :
                    e > off /\ (e \in DOMAIN c => c[e].used)}

RunEnd(c, off) == CHOOSE e \in Stops(c, off) : \A x \in Stops(c, off) : e <= x

(* blk_coalesce: the free block at `off` takes in those that follow.       *)
Coalesced(c, off) ==
  [s \in DOMAIN c \ (off + 1 .. RunEnd(c, off) - 1) |->
     IF s = off THEN Block(RunEnd(c, off) - off, FALSE) ELSE c[s]]

(* Every free block at or before `last` coalesced, as the walk leaves them.*)
Swallowed(c, last) ==
  {s \in DOMAIN c : \E p \in Free(c) : p <= last /\ p < s /\ s < RunEnd(c, p)}

Tidied(c, last) ==
  [s \in DOMAIN c \ Swallowed(c, last) |->
     IF s \in Free(c) /\ s <= last THEN Block(RunEnd(c, s) - s, FALSE) ELSE c[s]]

(* A block of `need` words cut from the `size` words at `off`, unless what *)
(* is left would be too small for a block of its own.                      *)
Splits(size, need) == size >= need + 2

Carved(c, off, size, need) ==
  IF Splits(size, need)
  THEN [s \in DOMAIN c \cup {off + need} |->
          IF s = off THEN Block(need, TRUE)
          ELSE IF s = off + need THEN Block(size - need, FALSE)
          ELSE c[s]]
  ELSE [c EXCEPT ![off] = Block(size, TRUE)]

(* Where Carved writes headers.                                            *)
Written(off, size, need) ==
  {off} \cup IF Splits(size, need) THEN {off + need} ELSE {}

Payload(c, off) == off + 1 .. off + c[off].size - 1

Headed(m, offs) == [w \in DOMAIN m |-> IF w \in offs THEN Hdr ELSE m[w]]
ZeroedWords(m, ws) == [w \in DOMAIN m |-> IF w \in ws THEN 0 ELSE m[w]]

\* A mistake it could have made: the last word is not copied.
CopiedShort(m, from, to, n) ==
  [w \in DOMAIN m |-> IF w \in to .. to + n - 2 THEN m[from + (w - to)] ELSE m[w]]

(* memcpy of n words.                                                      *)
CopiedWords(m, from, to, n) ==
  [w \in DOMAIN m |-> IF w \in to .. to + n - 1 THEN m[from + (w - to)] ELSE m[w]]

-----------------------------------------------------------------------------
(* A request with its header, in sixteen bits; LocalAlloc rounds it up to  *)
(* the smallest block, the reallocations do not.                           *)
Asked(words) == (words + 1) % SEG
Need(words) == IF Asked(words) < 2 THEN 2 ELSE Asked(words)

(* First fit: the walk coalesces every free block it meets and stops at    *)
(* the first that is then large enough.                                    *)
Rooms(c, need) == {off \in Free(c) : RunEnd(c, off) - off >= need}

FirstRoom(c, need, off) ==
  /\ off \in Rooms(c, need)
  /\ \A o \in Rooms(c, need) : off <= o

(* lmem_alloc of `words` in the heap c, m at `off`: the heap it leaves.    *)
Given(c, off, words) ==
  Carved(Tidied(c, off), off, RunEnd(c, off) - off, Need(words))

GivenMem(c, m, off, words, zero) ==
  LET headed == Headed(m, Written(off, RunEnd(c, off) - off, Need(words)))
  IN  IF zero THEN ZeroedWords(headed, Payload(Given(c, off, words), off)) ELSE headed

LocalAlloc(words, zero) ==
  \/ \E off \in Free(chain) :
       /\ FirstRoom(chain, Need(words), off)
       /\ chain' = Given(chain, off, words)
       /\ mem'   = GivenMem(chain, mem, off, words, zero)
       /\ held'  = held \cup {HandleAt(off)}
       /\ localRet'   = Called("alloc", 0, words, HandleAt(off))
  \/ /\ Rooms(chain, Need(words)) = {}
     /\ chain' = Tidied(chain, END)
     /\ localRet'   = Called("alloc", 0, words, 0)
     /\ UNCHANGED <<mem, held>>

(* lmem_free of the block at `off`.                                        *)
Returned(c, off) == Coalesced([c EXCEPT ![off].used = FALSE], off)

LocalFree(h) ==
  /\ h \in held
  /\ chain' = Returned(chain, HeaderOf(h))
  /\ held'  = held \ {h}
  /\ localRet'   = Called("free", h, 0, 0)
  /\ UNCHANGED mem

(* LocalReAlloc to no more than the block has: the tail becomes a block of *)
(* its own if it is enough for one, and takes in the free ones after it.   *)
LocalReAllocShrink(h, words) ==
  LET off  == HeaderOf(h)
      size == chain[off].size
      tail == off + Asked(words)
      cut  == Carved(chain, off, size, Asked(words))
  IN
  /\ h \in held
  /\ words <= size - 1
  /\ localRet' = Called("realloc", h, words, h)
  /\ IF Asked(words) >= 2 /\ Splits(size, Asked(words))
     THEN /\ chain' = Coalesced(cut, tail)
          /\ mem'   = Headed(mem, {off, tail})
     ELSE UNCHANGED <<chain, mem>>
  /\ UNCHANGED held

(* The heap after the block at `off` has looked at its neighbour: a free   *)
(* one has been coalesced, whether or not it is then enough.               *)
Neighbour(off) == off + chain[off].size

FreeNext(off) == Neighbour(off) < END /\ Neighbour(off) \in Free(chain)

Looked(off) == IF FreeNext(off) THEN Coalesced(chain, Neighbour(off)) ELSE chain

(* What the block would have with its free neighbour.                      *)
Merged(off) == RunEnd(chain, Neighbour(off)) - off

Grows(off, words) == FreeNext(off) /\ Merged(off) >= Asked(words)

LocalReAllocGrow(h, words, zero) ==
  LET off   == HeaderOf(h)
      next  == Neighbour(off)
      c     == [s \in DOMAIN Looked(off) \ {next} |-> Looked(off)[s]]
      grown == Carved(c, off, Merged(off), Asked(words))
      m     == Headed(mem, Written(off, Merged(off), Asked(words)))
      old   == chain[off].size - 1
  IN
  /\ h \in held
  /\ words > old
  /\ Grows(off, words)
  /\ chain' = grown
  /\ mem'   = IF zero THEN ZeroedWords(m, h + old .. off + grown[off].size - 1) ELSE m
  /\ localRet'   = Called("realloc", h, words, h)
  /\ UNCHANGED held

(* Neither: a new block, the old one's words, and the old one freed; or no *)
(* room, and the old block stays.                                          *)
LocalReAllocMove(h, words, zero) ==
  LET off  == HeaderOf(h)
      size == chain[off].size
      c    == Looked(off)
  IN
  /\ h \in held
  /\ words > size - 1
  /\ ~Grows(off, words)
  /\ \/ \E new \in Free(c) :
          /\ FirstRoom(c, Need(words), new)
          /\ chain' = Returned(Given(c, new, words), off)
          /\ mem'   = CopiedWords(GivenMem(c, mem, new, words, zero), h, HandleAt(new), size - 1)
          /\ held'  = (held \ {h}) \cup {HandleAt(new)}
          /\ localRet'   = Called("realloc", h, words, HandleAt(new))
     \/ /\ Rooms(c, Need(words)) = {}
        /\ chain' = Tidied(c, END)
        /\ localRet'   = Called("realloc", h, words, 0)
        /\ UNCHANGED <<mem, held>>

(* The program stores into a block it holds.                               *)
LocalStore(h, w, b) ==
  /\ h \in held
  /\ w \in Payload(chain, HeaderOf(h))
  /\ mem' = [mem EXCEPT ![w] = b]
  /\ localRet' = Called("store", h, 0, h)
  /\ UNCHANGED <<chain, held>>

LocalNext ==
  \/ \E words \in Requests, zero \in BOOLEAN : LocalAlloc(words, zero)
  \/ \E h \in held :
       \/ LocalFree(h)
       \/ \E words \in Requests : LocalReAllocShrink(h, words)
       \/ \E words \in Requests, zero \in BOOLEAN :
            \/ LocalReAllocGrow(h, words, zero)
            \/ LocalReAllocMove(h, words, zero)
       \/ \E w \in Word, b \in Stores : LocalStore(h, w, b)

LocalSpec == LocalInit /\ [][LocalNext]_localVars

-----------------------------------------------------------------------------
(***************************************************************************)
(* Properties.                                                             *)
(***************************************************************************)

Offset == BASE .. END - 1

LocalTypeOK ==
  /\ DOMAIN chain \subseteq Offset
  /\ \A off \in DOMAIN chain : chain[off] \in [size : 2 .. END - BASE, used : BOOLEAN]
  /\ mem \in [Word -> Stores \cup {0, Dirt, Hdr}]
  /\ held \subseteq Word
  /\ localRet \in [op : {"init", "alloc", "realloc", "free", "store"},
              from : Word, want : 0 .. SEG, h : Word]

(* The blocks lie end to end from heap_base to heap_end: each ends where   *)
(* another starts or where the heap does, and none starts inside another.  *)
(* It is what lets every walk step by blk_size without looking, through    *)
(* every split, merge, move and failed attempt at one.                     *)
Tiles(c) ==
  /\ BASE \in DOMAIN c
  /\ \A off \in DOMAIN c :
       /\ off + c[off].size \in DOMAIN c \cup {END}
       /\ \A s \in DOMAIN c : ~(off < s /\ s < off + c[off].size)

ChainTiles == Tiles(chain)

(* The used blocks are those the program holds: none is lost on the way    *)
(* through a reallocation, and none is free while the program has it.      *)
UsedAreHeld == {HandleAt(off) : off \in DOMAIN chain \ Free(chain)} = held

(* A header is never overwritten by what the heap zeroes or copies, nor by *)
(* what the program stores in the blocks it was given.                     *)
HeadersIntact == \A off \in DOMAIN chain : mem[off] = Hdr

(* A block that was asked for has room for what was asked.                 *)
EnoughGiven ==
  (localRet.op \in {"alloc", "realloc"} /\ localRet.h # 0) =>
    chain[HeaderOf(localRet.h)].size > localRet.want

(* No call disturbs the words of a block but the program's own stores: a   *)
(* block that stays where it is keeps what fits, and one that moves takes  *)
(* its words with it.                                                      *)
Kept(h, g) ==
  \A k \in 0 .. chain[HeaderOf(h)].size - 2 :
    k < chain'[HeaderOf(g)].size - 1 => mem'[g + k] = mem[h + k]

WordsKept ==
  [][\A h \in held :
       localRet'.op # "store" =>
         IF localRet'.op \in {"free", "realloc"} /\ localRet'.from = h /\ localRet'.h # 0
         THEN Kept(h, localRet'.h)
         ELSE h \in held' => Kept(h, h)]_localVars

(* The heap stays whole and the program's words stay where they were, all  *)
(* at once: whatever lmem_alloc, lmem_free and lmem_realloc did to reach   *)
(* here, the chain can be walked, and the next call moves no word but with *)
(* its block.                                                              *)
LocalHeapKept ==
  /\ [](LocalTypeOK /\ ChainTiles /\ UsedAreHeld /\ HeadersIntact /\ EnoughGiven)
  /\ WordsKept
=============================================================================
