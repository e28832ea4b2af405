----------------------------- MODULE BlockStore -----------------------------
(***************************************************************************)
(* What a program is promised by a global heap: a set of live blocks, each *)
(* a string of bytes that nothing but a write through that block changes.  *)
(* A new block reads as zero; a resized one, wherever it ends up, keeps    *)
(* what fits and reads as zero beyond it.                                  *)
(***************************************************************************)
EXTENDS Integers

CONSTANTS Name, Byte, Size

VARIABLE blocks   \* a partial function from Name to strings of bytes

Live == DOMAIN blocks

Bytes(n) == [0 .. n - 1 -> Byte]

Zeros(n) == [k \in 0 .. n - 1 |-> 0]

(* The first n bytes of a string, and zeros where it has no more.          *)
Resized(s, n) == [k \in 0 .. n - 1 |-> IF k \in DOMAIN s THEN s[k] ELSE 0]

Init == blocks = [b \in {} |-> Zeros(0)]

Alloc(b, n) ==
  /\ b \notin Live
  /\ blocks' = [x \in Live \cup {b} |-> IF x = b THEN Zeros(n) ELSE blocks[x]]

Free(b) ==
  /\ b \in Live
  /\ blocks' = [x \in Live \ {b} |-> blocks[x]]

(* The block may keep its name or be given one no live block has.          *)
Resize(b, c, n) ==
  /\ b \in Live
  /\ c \notin Live \ {b}
  /\ blocks' = [x \in (Live \ {b}) \cup {c} |->
                  IF x = c THEN Resized(blocks[b], n) ELSE blocks[x]]

Write(b, k, v) ==
  /\ b \in Live
  /\ k \in DOMAIN blocks[b]
  /\ blocks' = [blocks EXCEPT ![b][k] = v]

Next ==
  \/ \E b \in Name, n \in Size : Alloc(b, n)
  \/ \E b \in Name : Free(b)
  \/ \E b, c \in Name, n \in Size : Resize(b, c, n)
  \/ \E b \in Live : \E k \in DOMAIN blocks[b], v \in Byte : Write(b, k, v)

Spec == Init /\ [][Next]_blocks
=============================================================================
