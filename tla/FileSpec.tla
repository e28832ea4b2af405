------------------------------ MODULE FileSpec ------------------------------
(***************************************************************************)
(* What fs.h promises of open, read, write, seek and close, for one file   *)
(* and the handles on it: every call acts on the file at once, and a       *)
(* handle's position is the sum of what its calls answered.                *)
(***************************************************************************)
EXTENDS Integers, Sequences, SequencesExt

CONSTANTS
  N,       \* handles 1 .. N
  Data,    \* the strings programs write
  Wants,   \* how much they ask to read at once
  Offs     \* how far they seek

VARIABLES
  content,  \* the file
  where,    \* each handle's position; Shut where it is not open
  ret       \* what the last call answered

specvars == <<content, where, ret>>

Shut == -1

Answer(op, n, data) == [op |-> op, n |-> n, data |-> data]

(* At most k bytes of s from position p.                                   *)
Slice(s, p, k) == SubSeq(s, p + 1, Min({p + k, Len(s)}))

(* s with d laid over it from position p, and zeros up to p if s is short. *)
Overlaid(s, p, d) ==
  IF d = <<>> THEN s
  ELSE [i \in 1 .. Max({Len(s), p + Len(d)}) |->
          IF i > p /\ i <= p + Len(d) THEN d[i - p]
          ELSE IF i <= Len(s) THEN s[i] ELSE 0]

Base(origin, at, s) ==
  CASE origin = "SET" -> 0
    [] origin = "CUR" -> at
    [] origin = "END" -> Len(s)

Origins == {"SET", "CUR", "END"}

Open(h, create) ==
  /\ where[h] = Shut
  /\ where' = [where EXCEPT ![h] = 0]
  /\ content' = IF create THEN <<>> ELSE content
  /\ ret' = Answer("open", h, <<>>)

Close(h) ==
  /\ where[h] # Shut
  /\ where' = [where EXCEPT ![h] = Shut]
  /\ ret' = Answer("close", h, <<>>)
  /\ UNCHANGED content

CloseAll ==
  /\ where' = [h \in 1 .. N |-> Shut]
  /\ ret' = Answer("exit", 0, <<>>)
  /\ UNCHANGED content

Read(h, want) ==
  LET data == Slice(content, where[h], want) IN
  /\ where[h] # Shut
  /\ where' = [where EXCEPT ![h] = @ + Len(data)]
  /\ ret' = Answer("read", Len(data), data)
  /\ UNCHANGED content

Write(h, d) ==
  /\ where[h] # Shut
  /\ content' = Overlaid(content, where[h], d)
  /\ where' = [where EXCEPT ![h] = @ + Len(d)]
  /\ ret' = Answer("write", Len(d), <<>>)

(* A seek to before the start fails and moves nothing.                     *)
Seek(h, off, origin) ==
  LET target == Base(origin, where[h], content) + off IN
  /\ where[h] # Shut
  /\ IF target < 0
     THEN ret' = Answer("seek", -1, <<>>) /\ UNCHANGED where
     ELSE ret' = Answer("seek", target, <<>>) /\ where' = [where EXCEPT ![h] = target]
  /\ UNCHANGED content

Init ==
  /\ content \in {<<>>} \cup Data
  /\ where = [h \in 1 .. N |-> Shut]
  /\ ret = Answer("exit", 0, <<>>)

Next ==
  \/ \E h \in 1 .. N :
       \/ \E create \in BOOLEAN : Open(h, create)
       \/ Close(h)
       \/ \E want \in Wants : Read(h, want)
       \/ \E d \in Data : Write(h, d)
       \/ \E off \in Offs, origin \in Origins : Seek(h, off, origin)
  \/ CloseAll

Spec == Init /\ [][Next]_specvars
=============================================================================
