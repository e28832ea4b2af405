------------------------------ MODULE DosFiles ------------------------------
(***************************************************************************)
(* The guest's files in the library: the files in memory (fs_mem.c) with   *)
(* the arena they take their bytes from (lib_alloc and lib_grow of         *)
(* libstars.c), and the table of DOS handles over them (api_dos.c), from   *)
(* the moment the caller's files are put in to the end of the run.         *)
(*                                                                         *)
(* fs_mem.c is functions of one record, which the DOS calls then have as   *)
(* their state:                                                            *)
(*                                                                         *)
(*   ents   the directory, as long as the high-water mark of its slots     *)
(*   opens  the open handles                                               *)
(*   mem    every byte there is: the caller's input files, then the arena  *)
(*   beg    the first byte of the arena that is not taken                  *)
(*                                                                         *)
(* A name is the sequence of its components, without the drive; <<>> is    *)
(* the root, and the name of a slot that is free.  What else is left in a  *)
(* slot or a handle that is free is not kept: it is cleared before it is   *)
(* looked at again.  Attributes, dates and searches are left out.          *)
(*                                                                         *)
(* The guest is free to call what it likes in any order, but for two       *)
(* things it would not find DOS allowing: it does not remove a file it has *)
(* open, and it does not rename a directory, or rename a file to the root. *)
(***************************************************************************)
EXTENDS Integers, Sequences, SequencesExt

CONSTANTS
  MAX_ENTRIES,
  MAX_OPEN,
  MinCap,      \* the first bytes of a file of its own: 4096
  Align,       \* allocations start at a multiple of this: 16
  ArenaStart,  \* the caller's input lies below
  ArenaEnd     \* the last byte of the arena

ASSUME MemConstants ==
  /\ {MAX_ENTRIES, MAX_OPEN, MinCap, Align, ArenaStart} \subseteq Nat \ {0}
  /\ ArenaEnd \in Nat /\ ArenaStart <= ArenaEnd

NOTFOUND == -2
NOPATH   == -3
TOOMANY  == -4
ACCESS   == -5
BADHAND  == -6
GIVENUP  == -99   \* lib_fail(STARS_ENOMEM): there is no answer at all

Answered(fs, r) == [fs |-> fs, r |-> r]

-----------------------------------------------------------------------------
(* The arena.                                                              *)

LaidAt(mem, at, bytes) ==
  [a \in DOMAIN mem |-> IF a >= at /\ a < at + Len(bytes) THEN bytes[a - at + 1]
                                                          ELSE mem[a]]

Zeros(n) == [k \in 1 .. n |-> 0]

Bytes(mem, at, n) == [k \in 1 .. n |-> mem[at + k - 1]]

(* lib_alloc: where the bytes are, or GIVENUP.                             *)
Alloc(fs, size) ==
  LET at == fs.beg + ((Align - (fs.beg % Align)) % Align) IN
  IF at + size > ArenaEnd + 1 THEN Answered(fs, GIVENUP)
  ELSE Answered([fs EXCEPT !.beg = at + size,
                           !.mem = LaidAt(@, at, Zeros(size))], at)

GrowsInPlace(fs, p, old, size) ==
  p + old = fs.beg /\ fs.beg + size - old <= ArenaEnd + 1

(* lib_grow.                                                               *)
Grow(fs, p, old, size) ==
  IF GrowsInPlace(fs, p, old, size)
  THEN Answered([fs EXCEPT !.beg = @ + size - old,
                           !.mem = LaidAt(@, p + old, Zeros(size - old))], p)
  ELSE LET q == Alloc(fs, size) IN
       IF q.r = GIVENUP THEN q
       ELSE Answered([q.fs EXCEPT !.mem = LaidAt(@, q.r, Bytes(@, p, old))], q.r)

-----------------------------------------------------------------------------
(* The directory.                                                          *)

Blank == [name |-> <<>>, isdir |-> FALSE, written |-> FALSE,
          borrowed |-> 0, data |-> 0, len |-> 0, cap |-> 0]

Used(fs) == {i \in DOMAIN fs.ents : fs.ents[i].name # <<>>}

Least(S) == CHOOSE x \in S : \A y \in S : x <= y

(* find_ent: 0 if there is none.                                           *)
Found(fs, name) ==
  LET at == {i \in Used(fs) : fs.ents[i].name = name} IN
  IF at = {} THEN 0 ELSE Least(at)

IsDir(fs, name) == Found(fs, name) # 0 /\ fs.ents[Found(fs, name)].isdir

(* mem_resolve: a path through a directory that is not there names the     *)
(* file in the root.                                                       *)
Resolved(fs, path) ==
  IF Len(path) > 1 /\ ~IsDir(fs, Front(path)) THEN <<Last(path)>> ELSE path

(* new_ent: the slot, or 0 if the directory is full.                       *)
NewEnt(fs, name, isdir) ==
  LET free == DOMAIN fs.ents \ Used(fs)
      new  == [Blank EXCEPT !.name = name, !.isdir = isdir]
  IN  IF free # {}
      THEN Answered([fs EXCEPT !.ents[Least(free)] = new], Least(free))
      ELSE IF Len(fs.ents) = MAX_ENTRIES THEN Answered(fs, 0)
      ELSE Answered([fs EXCEPT !.ents = Append(@, new)], Len(fs.ents) + 1)

(* ent_bytes *)
Base(e) == IF e.data # 0 THEN e.data ELSE e.borrowed

Contents(fs, i) == Bytes(fs.mem, Base(fs.ents[i]), fs.ents[i].len)

(* ent_truncate: bytes of its own are kept for reuse.                      *)
Truncated(e) == [e EXCEPT !.borrowed = 0, !.len = 0, !.written = TRUE]

-----------------------------------------------------------------------------
(* ent_reserve: room for `need` bytes of the file's own.                   *)

Doubled(cap, need) ==
  LET times[k \in 0 .. need] == IF k = 0 THEN cap ELSE 2 * times[k - 1]
  IN  Least({c \in {times[k] : k \in 0 .. need} : c >= need})

(* The caller's bytes are copied before the first write.                   *)
Unborrowed(fs, i, need) ==
  LET e   == fs.ents[i]
      cap == IF e.len > need THEN e.len ELSE need
      d   == Alloc(fs, IF cap = 0 THEN 1 ELSE cap)
  IN  IF e.borrowed = 0 THEN Answered(fs, 1)
      ELSE IF d.r = GIVENUP THEN d
      ELSE Answered([d.fs EXCEPT
             !.mem = LaidAt(@, d.r, Bytes(@, e.borrowed, e.len)),
             !.ents[i] = [e EXCEPT !.borrowed = 0, !.data = d.r, !.cap = cap]], 1)

Reserved(fs, i, need) ==
  LET own  == Unborrowed(fs, i, need)
      e    == own.fs.ents[i]
      cap  == Doubled(IF e.cap = 0 THEN MinCap ELSE e.cap, need)
      room == IF e.data # 0 THEN Grow(own.fs, e.data, e.cap, cap)
                            ELSE Alloc(own.fs, cap)
  IN  IF own.r = GIVENUP \/ need <= e.cap THEN own
      ELSE IF room.r = GIVENUP THEN room
      ELSE Answered([room.fs EXCEPT !.ents[i] =
                      [e EXCEPT !.data = room.r, !.cap = cap]], 1)

-----------------------------------------------------------------------------
(* Handles.                                                                *)

NotOpen == [ent |-> 0, access |-> "RDWR", pos |-> 0]

IsOpen(fs, h) == h \in 1 .. MAX_OPEN /\ fs.opens[h].ent # 0

(* The end of fs_open.                                                     *)
Handed(fs, i, access) ==
  LET free == {h \in 1 .. MAX_OPEN : fs.opens[h].ent = 0} IN
  IF free = {} THEN Answered(fs, TOOMANY)
  ELSE Answered([fs EXCEPT !.opens[Least(free)] =
                   [ent |-> i, access |-> access, pos |-> 0]], Least(free))

fs_open(fs, path, access, disposition) ==
  LET name == Resolved(fs, path)
      i    == Found(fs, name)
      made == IF i # 0 THEN Answered(fs, i) ELSE NewEnt(fs, name, FALSE)
  IN  IF name = <<>>
        THEN Answered(fs, IF disposition = "EXISTING" THEN NOTFOUND ELSE ACCESS)
      ELSE IF i # 0 /\ fs.ents[i].isdir THEN Answered(fs, ACCESS)
      ELSE IF disposition = "EXISTING"
        THEN IF i = 0 THEN Answered(fs, NOTFOUND) ELSE Handed(fs, i, access)
      ELSE IF disposition = "CREATE_NEW" /\ i # 0 THEN Answered(fs, ACCESS)
      ELSE IF made.r = 0 THEN Answered(fs, ACCESS)
      ELSE Handed([made.fs EXCEPT !.ents[made.r] = Truncated(@)], made.r, access)

fs_close(fs, h) ==
  IF ~IsOpen(fs, h) THEN Answered(fs, BADHAND)
  ELSE Answered([fs EXCEPT !.opens[h] = NotOpen], 0)

(* The bytes are in `data`; the count is the answer.                       *)
fs_read(fs, h, n) ==
  LET o    == fs.opens[h]
      all  == Contents(fs, o.ent)
      data == SubSeq(all, o.pos + 1,
                     IF o.pos + n < Len(all) THEN o.pos + n ELSE Len(all))
  IN  IF ~IsOpen(fs, h) THEN [fs |-> fs, r |-> BADHAND, data |-> <<>>]
      ELSE IF o.access = "WRITE" THEN [fs |-> fs, r |-> ACCESS, data |-> <<>>]
      ELSE [fs |-> [fs EXCEPT !.opens[h].pos = @ + Len(data)],
            r |-> Len(data), data |-> data]

\* A mistake it could have made: what lies between is left as it was.
GapLeft(mem, e, pos) == mem

(* A gap left by a seek past the end reads as zeros.                       *)
GapFilled(mem, e, pos) ==
  IF pos > e.len THEN LaidAt(mem, e.data + e.len, Zeros(pos - e.len)) ELSE mem

fs_write(fs, h, src) ==
  LET o    == fs.opens[h]
      end  == o.pos + Len(src)
      res  == Reserved([fs EXCEPT !.ents[o.ent].written = TRUE], o.ent, end)
      e    == res.fs.ents[o.ent]
  IN  IF ~IsOpen(fs, h) THEN Answered(fs, BADHAND)
      ELSE IF o.access = "READ" THEN Answered(fs, ACCESS)
      ELSE IF src = <<>>
        THEN Answered([fs EXCEPT !.ents[o.ent].written = TRUE], 0)
      ELSE IF res.r = GIVENUP THEN res
      ELSE Answered([res.fs EXCEPT
             !.mem = LaidAt(GapFilled(@, e, o.pos), Base(e) + o.pos, src),
             !.ents[o.ent].len = IF end > @ THEN end ELSE @,
             !.opens[h].pos = end], Len(src))

fs_seek(fs, h, off, origin) ==
  LET o  == fs.opens[h]
      to == off + CASE origin = "CUR" -> o.pos
                    [] origin = "END" -> fs.ents[o.ent].len
                    [] OTHER -> 0
  IN  IF ~IsOpen(fs, h) THEN Answered(fs, BADHAND)
      ELSE IF to < 0 THEN Answered(fs, ACCESS)
      ELSE Answered([fs EXCEPT !.opens[h].pos = to], to)

fs_close_all(fs) == [fs EXCEPT !.opens = [h \in 1 .. MAX_OPEN |-> NotOpen]]

-----------------------------------------------------------------------------
(* By path.                                                                *)

fs_unlink(fs, path) ==
  LET i == Found(fs, Resolved(fs, path)) IN
  IF i = 0 \/ IsDir(fs, Resolved(fs, path)) THEN Answered(fs, NOTFOUND)
  ELSE Answered([fs EXCEPT !.ents[i] = Blank], 0)

fs_rename(fs, from, to) ==
  LET a == Resolved(fs, from)
      b == Resolved(fs, to)
      i == Found(fs, a)
  IN  IF i = 0 THEN Answered(fs, ACCESS)
      ELSE IF a = b THEN Answered(fs, 0)
      ELSE IF Found(fs, b) # 0 THEN Answered(fs, ACCESS)
      ELSE Answered([fs EXCEPT !.ents[i].name = b], 0)

fs_mkdir(fs, path) ==
  LET name == Resolved(fs, path)
      made == NewEnt(fs, name, TRUE)
  IN  IF name = <<>> \/ Found(fs, name) # 0 \/ made.r = 0 THEN Answered(fs, NOPATH)
      ELSE Answered(made.fs, 0)

Inside(fs, name) == {i \in Used(fs) : Front(fs.ents[i].name) = name}

fs_rmdir(fs, path) ==
  LET i == Found(fs, path) IN
  IF ~IsDir(fs, path) THEN Answered(fs, NOPATH)
  ELSE IF Inside(fs, path) # {} THEN Answered(fs, ACCESS)
  ELSE Answered([fs EXCEPT !.ents[i] = Blank], 0)

-----------------------------------------------------------------------------
(* memfs_reset, and memfs_add of the caller's files: `inputs` gives each   *)
(* one's name and where its bytes are.                                     *)

Reset(mem) ==
  [ents |-> <<>>, opens |-> [h \in 1 .. MAX_OPEN |-> NotOpen],
   mem |-> mem, beg |-> ArenaStart]

Added(fs, input) ==
  LET name == <<Last(input.name)>>
      i    == Found(fs, name)
      made == IF i # 0 THEN Answered(fs, i) ELSE NewEnt(fs, name, FALSE)
  IN  [made.fs EXCEPT !.ents[made.r] =
         [@ EXCEPT !.borrowed = input.at, !.data = 0, !.len = input.len,
                   !.cap = 0, !.written = FALSE]]

-----------------------------------------------------------------------------
(* The DOS handles over it.                                                *)

CONSTANTS
  NFiles,       \* DOS handles for files: 5 .. 63 in the code, 1 .. NFiles here
  Paths,        \* BOUND: what the guest calls files
  DirPaths,     \* BOUND: what it makes directories of
  Strings,      \* BOUND: what it writes
  Wants,        \* BOUND: how much it reads at once
  Offs,         \* BOUND: how far it seeks
  MaxPos,       \* BOUND: where it seeks to
  Accesses,     \* BOUND: how it opens
  Inputs,       \* BOUND: the files the caller may put in, where their bytes are
  CallerMem     \* the bytes below the arena

Octets == 0 .. 255

(* Every input has bytes below the arena, and there is a slot for each.    *)
InputsAt ==
  [name : Seq(STRING) \ {<<>>}, at : 1 .. ArenaStart, len : 0 .. ArenaStart]

ASSUME DosConstants ==
  /\ NFiles \in 1 .. MAX_OPEN
  /\ Paths \cup DirPaths \subseteq Seq(STRING)
  /\ Strings \subseteq Seq(Octets)
  /\ Wants \subseteq Nat /\ Offs \subseteq Int /\ MaxPos \in Nat
  /\ Accesses \subseteq {"READ", "WRITE", "RDWR"}
  /\ CallerMem \in [1 .. ArenaStart - 1 -> Octets]
  /\ \A given \in Inputs :
       /\ given \in Seq(InputsAt) /\ Len(given) <= MAX_ENTRIES
       /\ \A k \in DOMAIN given : given[k].at + given[k].len <= ArenaStart

VARIABLES fs, fds, over, ret

vars == <<fs, fds, over, ret>>

NoFd == [kind |-> "FREE", fh |-> 0, pos |-> 0]
ImageLen == 1   \* BOUND: the length of a resource of the module

Answer(op, r, data) == [op |-> op, r |-> r, data |-> data]

Ok(fd) == fds[fd].kind # "FREE"
IsFile(fd) == fds[fd].kind = "FILE"

FreeFds == {fd \in 1 .. NFiles : ~Ok(fd)}

Said(op, r) == ret' = Answer(op, r, <<>>)

-----------------------------------------------------------------------------

\* A mistake it could have made: files stay open.
LeftOpen(g, fh) == g

(* What fd_file does with a file there is no room for.                     *)
NoRoom(g, fh) == fs_close(g, fh).fs

Open(path, access, disposition) ==
  LET got == fs_open(fs, path, access, disposition)
      fd  == Least(FreeFds)
  IN  /\ UNCHANGED over
      /\ \/ got.r < 0 /\ fs' = got.fs /\ Said("open", got.r) /\ UNCHANGED fds
         \/ /\ got.r > 0 /\ FreeFds = {}
            /\ fs' = NoRoom(got.fs, got.r)
            /\ Said("open", TOOMANY)
            /\ UNCHANGED fds
         \/ /\ got.r > 0 /\ FreeFds # {}
            /\ fs' = got.fs
            /\ fds' = [fds EXCEPT ![fd] = [kind |-> "FILE", fh |-> got.r, pos |-> 0]]
            /\ Said("open", fd)

(* dos_open_mem: a window onto the module.                                 *)
OpenImage ==
  /\ UNCHANGED <<fs, over>>
  /\ \/ FreeFds = {} /\ Said("image", TOOMANY) /\ UNCHANGED fds
     \/ /\ FreeFds # {}
        /\ fds' = [fds EXCEPT ![Least(FreeFds)] = [NoFd EXCEPT !.kind = "MEM"]]
        /\ Said("image", Least(FreeFds))

Close(fd) ==
  /\ UNCHANGED over
  /\ \/ ~Ok(fd) /\ Said("close", BADHAND) /\ UNCHANGED <<fs, fds>>
     \/ /\ Ok(fd)
        /\ fs' = IF IsFile(fd) THEN fs_close(fs, fds[fd].fh).fs ELSE fs
        /\ fds' = [fds EXCEPT ![fd] = NoFd]
        /\ Said("close", 0)

Read(fd, want) ==
  LET got  == fs_read(fs, fds[fd].fh, want)
      left == ImageLen - fds[fd].pos
      n    == IF want < left THEN want ELSE left
  IN  /\ UNCHANGED over
      /\ \/ ~Ok(fd) /\ Said("read", BADHAND) /\ UNCHANGED <<fs, fds>>
         \/ /\ Ok(fd) /\ ~IsFile(fd)
            /\ fds' = [fds EXCEPT ![fd].pos = @ + n]
            /\ Said("read", n)
            /\ UNCHANGED fs
         \/ /\ IsFile(fd)
            /\ fs' = got.fs
            /\ ret' = Answer("read", got.r, got.data)
            /\ UNCHANGED fds

(* lib_fail in the middle of a write: the run is over, and leave() closes  *)
(* every handle.                                                           *)
GiveUp ==
  /\ over' = TRUE
  /\ fs' = fs_close_all(fs)
  /\ fds' = [fd \in 1 .. NFiles |-> NoFd]
  /\ Said("end", 0)

Write(fd, d) ==
  LET put == fs_write(fs, fds[fd].fh, d) IN
  \/ ~IsFile(fd) /\ Said("write", BADHAND) /\ UNCHANGED <<fs, fds, over>>
  \/ IsFile(fd) /\ put.r = GIVENUP /\ GiveUp
  \/ /\ IsFile(fd) /\ put.r # GIVENUP
     /\ fs' = put.fs
     /\ Said("write", put.r)
     /\ UNCHANGED <<fds, over>>

Seek(fd, off, origin) ==
  LET went == fs_seek(fs, fds[fd].fh, off, origin) IN
  /\ UNCHANGED <<fds, over>>
  /\ \/ ~IsFile(fd) /\ Said("seek", BADHAND) /\ UNCHANGED fs
     \/ IsFile(fd) /\ went.r <= MaxPos /\ fs' = went.fs /\ Said("seek", went.r)

ByPath(op, did) == fs' = did.fs /\ Said(op, did.r) /\ UNCHANGED <<fds, over>>

Opened(name) == \E h \in 1 .. MAX_OPEN : IsOpen(fs, h) /\ fs.ents[fs.opens[h].ent].name = name

Unlink(path) == ~Opened(Resolved(fs, path)) /\ ByPath("unlink", fs_unlink(fs, path))

Rename(from, to) ==
  /\ ~IsDir(fs, Resolved(fs, from)) /\ Resolved(fs, to) # <<>>
  /\ ByPath("rename", fs_rename(fs, from, to))

Mkdir(path) == ByPath("mkdir", fs_mkdir(fs, path))

Rmdir(path) == ByPath("rmdir", fs_rmdir(fs, path))

(* dos_shutdown, when the game has ended.                                  *)
Shutdown ==
  /\ over' = TRUE
  /\ fs' = fs_close_all(fs)
  /\ fds' = [fd \in 1 .. NFiles |-> NoFd]
  /\ Said("end", 0)

-----------------------------------------------------------------------------
Memory == [a \in 1 .. ArenaEnd |-> IF a < ArenaStart THEN CallerMem[a] ELSE 0]

(* put_game: one file after another; the last of a name is the one there.  *)
PutIn(given) ==
  LET put[k \in 0 .. Len(given)] ==
        IF k = 0 THEN Reset(Memory) ELSE Added(put[k - 1], given[k])
  IN  put[Len(given)]

Init ==
  /\ \E given \in Inputs : fs = PutIn(given)
  /\ fds = [fd \in 1 .. NFiles |-> NoFd]
  /\ over = FALSE
  /\ ret = Answer("end", 0, <<>>)

Call ==
  \/ \E path \in Paths, access \in Accesses,
        disposition \in {"EXISTING", "CREATE", "CREATE_NEW"} :
        Open(path, access, disposition)
  \/ OpenImage
  \/ \E fd \in 1 .. NFiles :
        \/ Close(fd)
        \/ \E want \in Wants : Read(fd, want)
        \/ \E d \in Strings : Write(fd, d)
        \/ \E off \in Offs, origin \in {"SET", "CUR", "END"} : Seek(fd, off, origin)
  \/ \E path \in Paths : Unlink(path)
  \/ \E path \in DirPaths : Mkdir(path) \/ Rmdir(path)
  \/ \E from, to \in Paths : Rename(from, to)
  \/ Shutdown

Next == ~over /\ Call

Spec == Init /\ [][Next]_vars

-----------------------------------------------------------------------------
Extents == {i \in DOMAIN fs.ents : fs.ents[i].data # 0}

Span(i) == fs.ents[i].data .. fs.ents[i].data + fs.ents[i].cap - 1

TypeOK ==
  /\ DOMAIN fs.mem = 1 .. ArenaEnd
  /\ fs.beg \in ArenaStart .. ArenaEnd + 1
  /\ Len(fs.ents) <= MAX_ENTRIES
  /\ \A i \in DOMAIN fs.ents :
       LET e == fs.ents[i] IN
       e.len <= e.cap \/ (e.data = 0 /\ (e.borrowed # 0 \/ e.len = 0))
  /\ \A h \in 1 .. MAX_OPEN : fs.opens[h].ent \in 0 .. Len(fs.ents)
  /\ \A fd \in 1 .. NFiles : fds[fd].fh \in 0 .. MAX_OPEN /\ fds[fd].pos \in 0 .. ImageLen

(* stars.h:33: "Input bytes are only ever read": whatever the guest writes *)
(* to a file the caller put in, the caller's bytes are what they were.     *)
InputsUntouched == \A a \in 1 .. ArenaStart - 1 : fs.mem[a] = CallerMem[a]

(* The bytes of two files are never the same bytes, whichever grew, and    *)
(* none are bytes the arena has yet to give out.                           *)
BytesApart ==
  /\ \A i \in Extents : fs.ents[i].data + fs.ents[i].cap <= fs.beg
  /\ \A i, j \in Extents : i # j => Span(i) \cap Span(j) = {}

(* Every file the directory holds open is held by one DOS handle and no    *)
(* more: a handle the guest was refused, or has closed, leaves none behind *)
(* that nothing could close.                                               *)
OneFdEach ==
  \A h \in 1 .. MAX_OPEN :
    IsOpen(fs, h) <=> \E fd \in 1 .. NFiles :
      /\ IsFile(fd) /\ fds[fd].fh = h
      /\ \A other \in (1 .. NFiles) \ {fd} : IsFile(other) => fds[other].fh # h

(* was_written (libstars.c) decides by the mark whether the game saved     *)
(* anything: a file without it is the caller's, byte for byte.             *)
UnmarkedIsGiven ==
  \A i \in Used(fs) :
    LET e == fs.ents[i] IN
    ~e.written /\ ~e.isdir => \E given \in Inputs : \E k \in DOMAIN given :
       Contents(fs, i) = Bytes(CallerMem, given[k].at, given[k].len)

(* Every entry can be named: the path that is its name leads to it, and to *)
(* no other entry, since no two have one name.                             *)
EveryEntryNamed ==
  \A i \in Used(fs) :
    /\ Resolved(fs, fs.ents[i].name) = fs.ents[i].name
    /\ \A j \in Used(fs) : fs.ents[i].name = fs.ents[j].name => i = j

(* The directory is whole: nobody's bytes are another's, the guest's handles *)
(* and the directory's agree, what the caller gave is as it was, and every   *)
(* file has a name of its own.                                               *)
DosFilesSound ==
  /\ TypeOK /\ InputsUntouched /\ BytesApart /\ OneFdEach /\ UnmarkedIsGiven /\ EveryEntryNamed

-----------------------------------------------------------------------------
(* What the guest sees of all this is a directory.                         *)

DirOf(g) ==
  [name \in {g.ents[i].name : i \in Used(g)} |->
     LET i == Found(g, name)
     IN  [isdir |-> g.ents[i].isdir, bytes |-> Contents(g, i)]]

HandsOf(g, table) ==
  [fd \in {n \in 1 .. NFiles : table[n].kind = "FILE"} |->
     LET o == g.opens[table[fd].fh]
     IN  [name |-> g.ents[o.ent].name, access |-> o.access, pos |-> o.pos]]

ImageOf(table) ==
  [fd \in {n \in 1 .. NFiles : table[n].kind = "MEM"} |-> table[fd].pos]

(* The first n files put in, each under its own name in the root.          *)
GivenDir(given, n) ==
  [name \in {<<Last(given[k].name)>> : k \in 1 .. n} |->
     LET k == CHOOSE m \in 1 .. n :
                /\ <<Last(given[m].name)>> = name
                /\ \A later \in m + 1 .. n : <<Last(given[later].name)>> # name
     IN  [isdir |-> FALSE, bytes |-> Bytes(CallerMem, given[k].at, given[k].len)]]

Dir == INSTANCE DirSpec WITH
  MaxNames <- MAX_ENTRIES,
  Given <- {GivenDir(given, Len(given)) : given \in Inputs},
  dir <- DirOf(fs),
  hands <- HandsOf(fs, fds),
  image <- ImageOf(fds)

(* The guest cannot tell the directory in memory, with its borrowed bytes, *)
(* its reused slots and its doubling allocations, from DirSpec.            *)
DirSpecHolds == Dir!Spec

(* Both at once: the directory is whole, and it is the one DirSpec describes. *)
DosFilesKept == []DosFilesSound /\ DirSpecHolds
=============================================================================
