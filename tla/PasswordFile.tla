---------------------------- MODULE PasswordFile ----------------------------
(* password.c: blanking the hash of a player's password in a scrambled turn
   file.  A byte is a bit here and a block's body is a few of them; what counts
   is where the walk is in the file and in the keystream. *)
EXTENDS Naturals, Sequences, SequencesExt

CONSTANTS
    CELL,           \* bytes to a key (4)
    KEPT,           \* bytes of a block wanted in the clear (16)
    HASH,           \* where the hash is in its block (12)
    COUNT,          \* where the planets' count is in theirs (10)
    TAIL,           \* bytes after the block to a planet (4)
    HEADER,         \* the least size of a header (16)
    StartOf(_),     \* how far along the keystream a header starts it
    KeyByte(_, _),  \* byte j of the n-th key, a bit
    Files           \* files, each a sequence of blocks in the clear

ASSUME PasswordAssumption ==
    /\ CELL \in Nat \ {0} /\ HASH % CELL = 0 /\ HASH + CELL = KEPT /\ COUNT < KEPT

VARIABLES turn, blanked

passwordVars == <<turn, blanked>>

Xor(a, b) == (a + b) % 2
Scrambles(type) == type \notin {"header", "footer"}
CellsIn(size) == (size + CELL - 1) \div CELL

(* The file: for each block its type, its size and its body, scrambled from
   the n-th key on, and the bytes in the clear after a block of planets. *)
BodyOf(plain, n) ==
    [i \in DOMAIN plain |-> Xor(plain[i], KeyByte(n + ((i - 1) \div CELL), (i - 1) % CELL))]

TailOf(b) == IF b.type = "planets" /\ Len(b.plain) >= HASH
             THEN [i \in 1 .. b.plain[COUNT + 1] * TAIL |-> 1] ELSE <<>>

Scrambled(blocks) ==
    FoldLeft(LAMBDA st, b :
        LET n == IF b.type = "header" THEN StartOf(b.plain) ELSE st.n
        IN  [n    |-> IF Scrambles(b.type) THEN n + CellsIn(Len(b.plain)) ELSE n,
             file |-> Append(st.file, [type |-> b.type, size |-> Len(b.plain), tail |-> TailOf(b),
                                       body |-> IF Scrambles(b.type) THEN BodyOf(b.plain, n)
                                                ELSE b.plain])],
        [n |-> 0, file |-> <<>>], blocks).file

(* The same as bytes, a block's type and size being one mark before its body. *)
CellBytes(file) ==
    FlattenSeq([i \in DOMAIN file |->
        <<[type |-> file[i].type, size |-> file[i].size]>> \o file[i].body \o file[i].tail])

-----------------------------------------------------------------------------
(* password_blank: one step of the walk, from the mark at st.off + 1. *)
InClear(st, body) ==
    [i \in 1 .. KEPT |->
        IF i <= Len(body) THEN Xor(body[i], KeyByte(st.n + ((i - 1) \div CELL), (i - 1) % CELL))
        ELSE IF i <= CELL * CellsIn(Len(body))
        THEN KeyByte(st.n + ((i - 1) \div CELL), (i - 1) % CELL) ELSE 0]

\* A mistake it could have made: the zeros themselves are written.
BlankPlain(st, d) ==
    [st EXCEPT !.answer = "done",
               !.d = [i \in DOMAIN d |->
                   IF i - (st.off + 1) \in HASH + 1 .. HASH + CELL THEN 0 ELSE d[i]]]

(* The place of the hash takes the key itself, which is a zero in the clear. *)
Blanked(st, d) ==
    [st EXCEPT !.answer = "done",
               !.d = [i \in DOMAIN d |->
                   IF i - (st.off + 1) \in HASH + 1 .. HASH + CELL
                   THEN KeyByte(st.n + (HASH \div CELL), i - (st.off + 2 + HASH)) ELSE d[i]]]

AfterBlock(st, size) == st.off + 1 + size

BlockStep(st) ==
    LET d     == st.d
        mark  == d[st.off + 1]
        body  == SubSeq(d, st.off + 2, st.off + 1 + mark.size)
        plain == InClear(st, body)
        on    == [st EXCEPT !.off = AfterBlock(st, mark.size)]
    IN  IF mark.size > Len(d) - (st.off + 1) THEN [st EXCEPT !.answer = "malformed"]
        ELSE IF mark.type = "header"
        THEN IF mark.size < HEADER THEN [st EXCEPT !.answer = "malformed"]
             ELSE [on EXCEPT !.n = StartOf(body), !.keys = TRUE, !.owner = body[1]]
        ELSE IF mark.type = "footer" THEN on
        ELSE IF ~st.keys THEN [st EXCEPT !.answer = "malformed"]
        ELSE IF mark.type = "player" /\ mark.size >= KEPT /\ plain[1] = st.owner THEN Blanked(st, d)
        ELSE [on EXCEPT !.n = @ + CellsIn(mark.size),
                        !.off = @ + IF mark.type = "planets" /\ mark.size >= HASH
                                    THEN plain[COUNT + 1] * TAIL ELSE 0]

RECURSIVE Walk(_)
Walk(st) == IF st.answer # "walking" THEN st
            ELSE IF st.off + 1 > Len(st.d) THEN [st EXCEPT !.answer = "not there"]
            ELSE Walk(BlockStep(st))

PasswordBlank(d) ==
    Walk([d |-> d, off |-> 0, n |-> 0, keys |-> FALSE, owner |-> 2, answer |-> "walking"])

PasswordInit ==
    /\ \E f \in Files : \E n \in 0 .. Len(CellBytes(Scrambled(f))) :
           turn = [blocks |-> f, bytes |-> SubSeq(CellBytes(Scrambled(f)), 1, n)]
    /\ blanked = [answer |-> "none"]

BlankFile ==
    /\ blanked.answer = "none"
    /\ blanked' = LET w == PasswordBlank(turn.bytes) IN [answer |-> w.answer, bytes |-> w.d]
    /\ UNCHANGED turn

-----------------------------------------------------------------------------
(* The file the game would have written with the first hash of the owner blank. *)
OwnerAt(blocks, i) ==
    LET hs == {h \in 1 .. i : blocks[h].type = "header"}
    IN  IF hs = {} THEN 2 ELSE blocks[CHOOSE h \in hs : \A g \in hs : g <= h].plain[1]

Owned(blocks) ==
    {i \in DOMAIN blocks : blocks[i].type = "player" /\ Len(blocks[i].plain) >= KEPT
                           /\ blocks[i].plain[1] = OwnerAt(blocks, i)}

WithoutHash(blocks) ==
    LET first == CHOOSE i \in Owned(blocks) : \A j \in Owned(blocks) : i <= j
    IN  IF Owned(blocks) = {} THEN blocks
        ELSE [blocks EXCEPT ![first].plain =
                 [i \in DOMAIN @ |-> IF i \in HASH + 1 .. HASH + CELL THEN 0 ELSE @[i]]]

(* What the walk leaves is the file the game would have written had that
   player no password, whatever lies before the block and however long each
   block is; a file without such a block, or cut off before it, is as it was. *)
OnlyTheHashGoes ==
    blanked.answer # "none" =>
        LET whole == Len(turn.bytes) = Len(CellBytes(Scrambled(turn.blocks)))
            done  == SubSeq(CellBytes(Scrambled(WithoutHash(turn.blocks))), 1, Len(turn.bytes))
        IN  /\ blanked.bytes = IF blanked.answer = "done" THEN done ELSE turn.bytes
            /\ whole => blanked.answer = IF Owned(turn.blocks) = {} THEN "not there" ELSE "done"
=============================================================================
