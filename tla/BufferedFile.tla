---------------------------- MODULE BufferedFile ----------------------------
(***************************************************************************)
(* src/fs_win32.c: the guest's files as real files, each handle with one   *)
(* buffer that is either read-ahead (bytes of the file the guest has not   *)
(* asked for yet) or write-behind (bytes the guest has written and the     *)
(* file has not seen).                                                     *)
(*                                                                         *)
(* Every handle here is on the same file, so each is an alias of the       *)
(* others (file_same).  buf[rpos..rlen) is `ahead` and buf[0..wlen) is     *)
(* `behind`; `at` is the Win32 file position.  The host may fail a read or *)
(* a write (HostFails); a WriteFile that fails writes nothing.  The buffer *)
(* is assumed to be there: malloc does not fail.                           *)
(*                                                                         *)
(* `calm` marks the behaviours that are the everyday case: one handle open *)
(* at a time, a host that never fails, no seek to before the start.        *)
(***************************************************************************)
EXTENDS Integers, Sequences, SequencesExt

CONSTANTS
  N,          \* handles 1 .. N: the slots of files[] in use
  Writers,    \* the handles the program writes through
  FILE_BUF,   \* the size of a buffer (16384)
  MAX_LEN,    \* bound: no position past this one
  Data,       \* the strings the program writes at once
  Wants,      \* how much it asks to read at once
  Offs,       \* how far it seeks
  SeekBack,   \* it may seek to before the start of the file
  HostFails   \* ReadFile and WriteFile may fail

ASSUME BufferAssumption == FILE_BUF \in Nat \ {0}
ASSUME HandlesAssumption == N \in Nat \ {0} /\ Writers \subseteq 1 .. N
ASSUME FailsAssumption == HostFails \in BOOLEAN /\ SeekBack \in BOOLEAN

Byte == 0 .. 255
ASSUME CallsAssumption ==
  /\ Data \subseteq Seq(Byte) /\ Wants \subseteq Nat /\ Offs \subseteq Int
  /\ MAX_LEN \in Nat

VARIABLES
  disk,   \* the file
  files,  \* the File of each handle
  ret,    \* what the last call answered
  calm    \* the everyday case, from beginning to end

vars == <<disk, files, ret, calm>>

Handle == 1 .. N

Closed == [open |-> FALSE, at |-> 0, ahead |-> <<>>, behind |-> <<>>]
Fresh  == [open |-> TRUE,  at |-> 0, ahead |-> <<>>, behind |-> <<>>]

Answer(op, n, data) == [op |-> op, n |-> n, data |-> data]
Error == Answer("error", 0, <<>>)

F == INSTANCE FileSpec WITH
       content <- disk, where <- [h \in Handle |-> 0]

(* Where the guest believes a handle to be: the file's position less what  *)
(* was read ahead of it, plus what it has written and the file has not.    *)
Pos(f) == f.at - Len(f.ahead) + Len(f.behind)

Init ==
  /\ disk \in {<<>>} \cup Data
  /\ files = [h \in Handle |-> Closed]
  /\ ret = Answer("exit", 0, <<>>)
  /\ calm \in BOOLEAN

-----------------------------------------------------------------------------
(***************************************************************************)
(* The parts a call is made of, as functions of the file and the handles.  *)
(* `bad` is the set of handles whose WriteFile fails during the call.      *)
(***************************************************************************)

State == [disk |-> disk, files |-> files]

MayFail == HostFails /\ ~calm

Bad == IF MayFail THEN SUBSET Handle ELSE {{}}

FlushFails(s, h, bad) == s.files[h].behind # <<>> /\ h \in bad

(* file_flush: written or failed, the buffer is empty afterwards.          *)
Emptied(f, h, bad) ==
  IF f.behind = <<>> THEN f
  ELSE [f EXCEPT !.at = IF h \in bad THEN @ ELSE @ + Len(f.behind),
                 !.behind = <<>>]

Landed(bytes, f, h, bad) ==
  IF h \in bad THEN bytes ELSE F!Overlaid(bytes, f.at, f.behind)

Flushed(s, h, bad) ==
  [disk  |-> Landed(s.disk, s.files[h], h, bad),
   files |-> [s.files EXCEPT ![h] = Emptied(@, h, bad)]]

(* What the handles of `out` have pending, landed on the file in the order *)
(* of their slots: where two have written a byte, the later slot's is left.*)
Pending(f) == f.at + 1 .. f.at + Len(f.behind)
AllLanded(bytes, fs, out) ==
  [i \in 1 .. Max({Len(bytes)} \cup {fs[g].at + Len(fs[g].behind) : g \in out}) |->
     LET over == {g \in out : i \in Pending(fs[g])}
         last == fs[Max(over)]
     IN  IF over # {} THEN last.behind[i - last.at]
         ELSE IF i \in DOMAIN bytes THEN bytes[i] ELSE 0]

Dirty(fs, which) == {g \in which : fs[g].behind # <<>>}

(* The handles of `which` flushed in slot order.                           *)
FlushedIn(s, which, bad) ==
  [disk  |-> AllLanded(s.disk, s.files, Dirty(s.files, which) \ bad),
   files |-> [g \in Handle |->
                IF g \in which THEN Emptied(s.files[g], g, bad) ELSE s.files[g]]]

\* A mistake it could have made: other handles' writes stay pending.
AliasesLeftPending(s, h, bad) == s

(* file_flush_aliases: every other handle that has writes pending.         *)
FlushedAliases(s, h, bad) == FlushedIn(s, Handle \ {h}, bad)

\* A mistake it could have made: what was read ahead is dropped, the position stays.
UnreadInPlace(s, h) == [s EXCEPT !.files[h].ahead = <<>>]

(* file_unread: give back what was read ahead.                             *)
Unread(s, h) ==
  [s EXCEPT !.files[h].at = @ - Len(s.files[h].ahead),
            !.files[h].ahead = <<>>]

Become(s, answer) ==
  /\ disk' = s.disk
  /\ files' = s.files
  /\ ret' = answer
  /\ UNCHANGED calm

(* ReadFile(buf, n) at f.at, and the loop of fs_read once everything is    *)
(* flushed: the buffer first, then either straight into the destination or *)
(* through a refilled buffer.                                              *)
Refilled(s, f) == F!Slice(s.disk, f.at, FILE_BUF)

Served(s, h, want) ==
  LET f     == s.files[h]
      first == F!Slice(f.ahead, 0, want)
      rest  == want - Len(first)
      whole == F!Slice(s.disk, f.at, rest)
      fill  == Refilled(s, f)
      last  == F!Slice(fill, 0, rest)
  IN
  CASE rest = 0 ->
         [data |-> first, at |-> f.at,
          ahead |-> SubSeq(f.ahead, want + 1, Len(f.ahead))]
    [] rest >= FILE_BUF ->
         [data |-> first \o whole, at |-> f.at + Len(whole), ahead |-> <<>>]
    [] rest \in 1 .. FILE_BUF - 1 ->
         [data |-> first \o last, at |-> f.at + Len(fill),
          ahead |-> SubSeq(fill, rest + 1, Len(fill))]

-----------------------------------------------------------------------------
(* fs_open of the file, as it is or truncated.  Every dirty handle is      *)
(* flushed first, because the creation truncates; nobody looks at whether  *)
(* those flushes worked.                                                   *)
Open(h, create) ==
  /\ ~files[h].open
  /\ \A g \in Handle : ~files[g].open => h <= g
  /\ calm => \A g \in Handle : ~files[g].open
  /\ \E bad \in Bad :
       LET s == FlushedIn(State, Handle, bad)
           t == [s EXCEPT !.disk = IF create THEN <<>> ELSE @,
                          !.files[h] = Fresh]
       IN  Become(t, Answer("open", h, <<>>))

(* fs_close: the handle is gone whether or not the flush worked.           *)
Close(h) ==
  /\ files[h].open
  /\ \E bad \in Bad :
       LET s == Flushed(State, h, bad) IN
       Become([s EXCEPT !.files[h] = Closed],
              IF FlushFails(State, h, bad) THEN Error ELSE Answer("close", h, <<>>))

(* fs_close_all: the program is over, and its answers go to nobody.        *)
CloseAll ==
  \E bad \in Bad :
    LET s == FlushedIn(State, Handle, bad) IN
    Become([s EXCEPT !.files = [h \in Handle |-> Closed]],
           Answer("exit", 0, <<>>))

Read(h, want) ==
  /\ files[h].open
  /\ \E bad \in Bad :
       LET own    == Flushed(State, h, bad)
           s      == FlushedAliases(own, h, bad)
           served == Served(s, h, want)
       IN
       \/ /\ FlushFails(State, h, bad)
          /\ Become(own, Error)
       \/ /\ ~FlushFails(State, h, bad)
          /\ \E g \in Handle \ {h} : FlushFails(State, g, bad)
          /\ Become(s, Error)
       \/ /\ \A g \in Handle : ~FlushFails(State, g, bad)
          /\ Become([s EXCEPT !.files[h].at = served.at,
                              !.files[h].ahead = served.ahead],
                    Answer("read", Len(served.data), served.data))
       \/ /\ MayFail                            \* a ReadFile fails: the one that
          /\ \A g \in Handle : ~FlushFails(State, g, bad) \* refills the buffer,
          /\ want > Len(files[h].ahead)         \* or the next, at the end of the file
          /\ \E at \in {s.files[h].at} \cup
                         (IF Len(served.data) < want THEN {served.at} ELSE {}) :
               Become([s EXCEPT !.files[h].at = at, !.files[h].ahead = <<>>], Error)

Write(h, d) ==
  /\ files[h].open
  /\ h \in Writers
  /\ Pos(files[h]) + Len(d) <= MAX_LEN
  /\ \E bad \in Bad :
       LET u       == Unread(State, h)
           spills  == Len(u.files[h].behind) + Len(d) > FILE_BUF
           s       == IF spills THEN Flushed(u, h, bad) ELSE u
           answer  == Answer("write", Len(d), <<>>)
       IN
       \/ /\ d = <<>>
          /\ Become(u, answer)
       \/ /\ d # <<>> /\ spills /\ FlushFails(u, h, bad)
          /\ Become(s, Error)
       \/ /\ d # <<>> /\ ~(spills /\ FlushFails(u, h, bad))
          /\ \/ /\ Len(d) < FILE_BUF
                /\ Become([s EXCEPT !.files[h].behind = @ \o d], answer)
             \/ /\ Len(d) >= FILE_BUF           \* past the buffer, to the file
                /\ Become([s EXCEPT !.disk = F!Overlaid(s.disk, s.files[h].at, d),
                                    !.files[h].at = @ + Len(d)], answer)
             \/ /\ Len(d) >= FILE_BUF /\ MayFail
                /\ Become(s, Error)

(* The writes go out; what was read ahead is dropped, and a seek from the  *)
(* current position allows for it.  The new position may then be refused.  *)
Seek(h, off, origin) ==
  /\ files[h].open
  /\ \E bad \in Bad :
       LET s      == Flushed(State, h, bad)
           f      == s.files[h]
           delta  == IF origin = "CUR" THEN off - Len(f.ahead) ELSE off
           target == F!Base(origin, f.at, s.disk) + delta
           dry    == [s EXCEPT !.files[h].ahead = <<>>]
       IN
       \/ /\ FlushFails(State, h, bad)
          /\ Become(s, Error)
       \/ /\ ~FlushFails(State, h, bad)
          /\ target \in 0 .. MAX_LEN
          /\ Become([dry EXCEPT !.files[h].at = target],
                    Answer("seek", target, <<>>))
       \/ /\ ~FlushFails(State, h, bad)
          /\ SeekBack /\ ~calm /\ target < 0
          /\ Become(dry, Answer("seek", -1, <<>>))

Next ==
  \/ \E h \in Handle :
       \/ \E create \in BOOLEAN : Open(h, create)
       \/ Close(h)
       \/ \E want \in Wants : Read(h, want)
       \/ \E d \in Data : Write(h, d)
       \/ \E off \in Offs, origin \in F!Origins : Seek(h, off, origin)
  \/ CloseAll

Spec == Init /\ [][Next]_vars

-----------------------------------------------------------------------------
(***************************************************************************)
(* Properties.                                                             *)
(***************************************************************************)

(* "It is one or the other" (fs_win32.c:13): a handle never has bytes read *)
(* ahead and bytes unwritten at once, or a flush would land the write past *)
(* the read-ahead; neither outgrows the buffer, and a handle that is closed*)
(* has none of either.                                                     *)
OneOrOther ==
  \A h \in Handle :
    /\ files[h].ahead = <<>> \/ files[h].behind = <<>>
    /\ Len(files[h].ahead) < FILE_BUF /\ Len(files[h].behind) <= FILE_BUF
    /\ ~files[h].open => files[h] = Closed

(* The file as it will be once every pending write has landed.             *)
Merged == AllLanded(disk, files, Dirty(files, Handle))

(* What the program sees of it, in the everyday case.                      *)
SeenFile == IF calm THEN Merged ELSE <<>>
SeenPlaces == [h \in Handle |-> IF calm /\ files[h].open THEN Pos(files[h]) ELSE -1]
SeenAnswer == IF calm THEN ret ELSE Answer("exit", 0, <<>>)

(* With one handle at a time and a host that works the buffering cannot be *)
(* seen: every answer and every byte is what an unbuffered file would give.*)
Exact == INSTANCE FileSpec WITH
  content <- SeenFile, where <- SeenPlaces, ret <- SeenAnswer

ExactSpec == Exact!Spec

(* "a read through one flushes the writes pending on any other handle to   *)
(* the same file first" (fs_win32.c:22): a read that has nothing of its    *)
(* own read ahead answers with the file as every write has left it, unless *)
(* two handles have the same byte pending: nothing says which is the later.*)
Undisputed ==
  \A g, k \in Handle : g # k => Pending(files[g]) \cap Pending(files[k]) = {}

DryReadsExact ==
  [][\A h \in Handle, want \in Wants :
       (ret'.op = "read" /\ files[h].ahead = <<>> /\ Undisputed /\ Read(h, want)) =>
         ret'.data = F!Slice(Merged, Pos(files[h]), want)]_vars

(* Whatever the host refuses and whichever handle is next, no buffer is    *)
(* ever both kinds, and a dry read sees every write.                       *)
BuffersAgree == []OneOrOther /\ DryReadsExact

(* fs_win32.c:14-17: "the file's own position is always what the guest     *)
(* would believe it to be except by the amount the buffer accounts for".   *)
(* A seek that fails tells the guest it has not moved.                     *)
FailedSeekStays ==
  [][ret'.op = "seek" /\ ret'.n = -1 =>
       \A h \in Handle : files'[h].open => Pos(files'[h]) = Pos(files[h])]_vars
=============================================================================
