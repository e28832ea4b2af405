------------------------------ MODULE DirSpec ------------------------------
(***************************************************************************)
(* What the guest is promised of its files in the library: a directory of  *)
(* names, each a directory or a string of bytes, and handles, each on a    *)
(* name at a position.  A handle follows its file when the file is         *)
(* renamed.  Nothing here is a slot, a copy or a byte of memory.           *)
(***************************************************************************)
EXTENDS Integers, Sequences, SequencesExt, FiniteSets

CONSTANTS
  NFiles,      \* handles the guest may have
  MaxNames,    \* names the directory has room for
  Paths,       \* what the guest calls files
  DirPaths,    \* what it makes directories of
  Strings,     \* what it writes
  Wants,       \* how much it reads at once
  Offs,        \* how far it seeks
  Given        \* the directories it may be started in

VARIABLES
  dir,         \* from the names there are to what they hold
  hands,       \* from the handles that are open to what they are on
  image,       \* from the windows onto the module that are open to positions
  over,        \* the run has ended
  ret          \* what the last call answered

specvars == <<dir, hands, image, over, ret>>

ImageLen == 1

Answer(op, r, data) == [op |-> op, r |-> r, data |-> data]

IsDir(name) == name \in DOMAIN dir /\ dir[name].isdir

(* A path through a directory the guest did not make names the file in the *)
(* root.                                                                   *)
Named(path) == IF Len(path) > 1 /\ ~IsDir(Front(path)) THEN <<Last(path)>> ELSE path

File(bytes) == [isdir |-> FALSE, bytes |-> bytes]
Directory == [isdir |-> TRUE, bytes |-> <<>>]

With(f, x, y) == [z \in DOMAIN f \cup {x} |-> IF z = x THEN y ELSE f[z]]
Without(f, x) == [z \in DOMAIN f \ {x} |-> f[z]]

Full == Cardinality(DOMAIN dir) = MaxNames
Free == (1 .. NFiles) \ (DOMAIN hands \cup DOMAIN image)
NextFree == CHOOSE fd \in Free : \A other \in Free : fd <= other

(* s with d laid over it from position p, and zeros up to p if s is short. *)
Overlaid(s, p, d) ==
  [i \in 1 .. (IF p + Len(d) > Len(s) THEN p + Len(d) ELSE Len(s)) |->
     IF i > p /\ i <= p + Len(d) THEN d[i - p] ELSE IF i <= Len(s) THEN s[i] ELSE 0]

-----------------------------------------------------------------------------
Refuse(op, why) == ret' = Answer(op, why, <<>>) /\ UNCHANGED <<dir, hands, image, over>>

Refusal(name, disposition) ==
  IF name = <<>> \/ IsDir(name)
    THEN IF name = <<>> /\ disposition = "EXISTING" THEN -2 ELSE -5
  ELSE IF name \in DOMAIN dir
    THEN IF disposition = "CREATE_NEW" THEN -5 ELSE 0
  ELSE IF disposition = "EXISTING" THEN -2
  ELSE IF Full THEN -5 ELSE 0

(* An open that is refused for want of a handle has made or emptied the    *)
(* file all the same.                                                      *)
Open(path, access, disposition) ==
  LET name == Named(path) IN
  IF Refusal(name, disposition) # 0 THEN Refuse("open", Refusal(name, disposition))
  ELSE /\ IF Free = {}
          THEN ret' = Answer("open", -4, <<>>) /\ UNCHANGED hands
          ELSE /\ ret' = Answer("open", NextFree, <<>>)
               /\ hands' = With(hands, NextFree,
                             [name |-> name, access |-> access, pos |-> 0])
       /\ dir' = IF disposition = "EXISTING" THEN dir ELSE With(dir, name, File(<<>>))
       /\ UNCHANGED <<image, over>>

OpenImage ==
  IF Free = {} THEN Refuse("image", -4)
  ELSE /\ ret' = Answer("image", NextFree, <<>>)
       /\ image' = With(image, NextFree, 0)
       /\ UNCHANGED <<dir, hands, over>>

Close(fd) ==
  IF fd \in Free THEN Refuse("close", -6)
  ELSE /\ ret' = Answer("close", 0, <<>>)
       /\ hands' = Without(hands, fd)
       /\ image' = Without(image, fd)
       /\ UNCHANGED <<dir, over>>

Read(fd, want) ==
  \/ fd \in Free /\ Refuse("read", -6)
  \/ /\ fd \in DOMAIN image
     /\ LET n == IF want < ImageLen - image[fd] THEN want ELSE ImageLen - image[fd]
        IN  ret' = Answer("read", n, <<>>) /\ image' = [image EXCEPT ![fd] = @ + n]
     /\ UNCHANGED <<dir, hands, over>>
  \/ fd \in DOMAIN hands /\ hands[fd].access = "WRITE" /\ Refuse("read", -5)
  \/ /\ fd \in DOMAIN hands /\ hands[fd].access # "WRITE"
     /\ LET s    == dir[hands[fd].name].bytes
            p    == hands[fd].pos
            data == SubSeq(s, p + 1, IF p + want < Len(s) THEN p + want ELSE Len(s))
        IN  /\ ret' = Answer("read", Len(data), data)
            /\ hands' = [hands EXCEPT ![fd].pos = @ + Len(data)]
     /\ UNCHANGED <<dir, image, over>>

Write(fd, d) ==
  \/ fd \notin DOMAIN hands /\ Refuse("write", -6)
  \/ fd \in DOMAIN hands /\ hands[fd].access = "READ" /\ Refuse("write", -5)
  \/ /\ fd \in DOMAIN hands /\ hands[fd].access # "READ"
     /\ ret' = Answer("write", Len(d), <<>>)
     /\ dir' = IF d = <<>> THEN dir
               ELSE [dir EXCEPT ![hands[fd].name].bytes =
                       Overlaid(@, hands[fd].pos, d)]
     /\ hands' = [hands EXCEPT ![fd].pos = @ + Len(d)]
     /\ UNCHANGED <<image, over>>

Seek(fd, off, origin) ==
  \/ fd \notin DOMAIN hands /\ Refuse("seek", -6)
  \/ /\ fd \in DOMAIN hands
     /\ LET to == off + CASE origin = "CUR" -> hands[fd].pos
                          [] origin = "END" -> Len(dir[hands[fd].name].bytes)
                          [] OTHER -> 0
        IN  IF to < 0 THEN Refuse("seek", -5)
            ELSE /\ ret' = Answer("seek", to, <<>>)
                 /\ hands' = [hands EXCEPT ![fd].pos = to]
                 /\ UNCHANGED <<dir, image, over>>

Unlink(path) ==
  LET name == Named(path) IN
  IF name \notin DOMAIN dir \/ IsDir(name) THEN Refuse("unlink", -2)
  ELSE /\ ret' = Answer("unlink", 0, <<>>)
       /\ dir' = Without(dir, name)
       /\ UNCHANGED <<hands, image, over>>

Rename(from, to) ==
  LET a == Named(from)
      b == Named(to)
  IN  IF a \notin DOMAIN dir \/ (a # b /\ b \in DOMAIN dir) THEN Refuse("rename", -5)
      ELSE /\ ret' = Answer("rename", 0, <<>>)
           /\ dir' = With(Without(dir, a), b, dir[a])
           /\ hands' = [fd \in DOMAIN hands |->
                          IF hands[fd].name = a THEN [hands[fd] EXCEPT !.name = b]
                          ELSE hands[fd]]
           /\ UNCHANGED <<image, over>>

Mkdir(path) ==
  LET name == Named(path) IN
  IF name = <<>> \/ name \in DOMAIN dir \/ Full THEN Refuse("mkdir", -3)
  ELSE /\ ret' = Answer("mkdir", 0, <<>>)
       /\ dir' = With(dir, name, Directory)
       /\ UNCHANGED <<hands, image, over>>

(* Only an empty one.                                                      *)
Rmdir(path) ==
  IF ~IsDir(path) THEN Refuse("rmdir", -3)
  ELSE IF \E name \in DOMAIN dir : Front(name) = path THEN Refuse("rmdir", -5)
  ELSE /\ ret' = Answer("rmdir", 0, <<>>)
       /\ dir' = Without(dir, path)
       /\ UNCHANGED <<hands, image, over>>

(* The run ends, or is given up for want of memory: the directory is as    *)
(* the last call that was answered left it.                                *)
Ends ==
  /\ over' = TRUE
  /\ hands' = << >> /\ image' = << >>
  /\ ret' = Answer("end", 0, <<>>)
  /\ UNCHANGED dir

Init ==
  /\ dir \in Given
  /\ hands = << >> /\ image = << >>
  /\ over = FALSE
  /\ ret = Answer("end", 0, <<>>)

Next ==
  /\ ~over
  /\ \/ /\ ret'.op = "open"
        /\ \E path \in Paths, access \in {"READ", "WRITE", "RDWR"},
             disposition \in {"EXISTING", "CREATE", "CREATE_NEW"} :
             Open(path, access, disposition)
     \/ ret'.op = "image" /\ OpenImage
     \/ ret'.op = "close" /\ \E fd \in 1 .. NFiles : Close(fd)
     \/ ret'.op = "read" /\ \E fd \in 1 .. NFiles, want \in Wants : Read(fd, want)
     \/ ret'.op = "write" /\ \E fd \in 1 .. NFiles, d \in Strings : Write(fd, d)
     \/ /\ ret'.op = "seek"
        /\ \E fd \in 1 .. NFiles, off \in Offs, origin \in {"SET", "CUR", "END"} :
             Seek(fd, off, origin)
     \/ ret'.op = "unlink" /\ \E path \in Paths : Unlink(path)
     \/ ret'.op = "mkdir" /\ \E path \in DirPaths : Mkdir(path)
     \/ ret'.op = "rmdir" /\ \E path \in DirPaths : Rmdir(path)
     \/ ret'.op = "rename" /\ \E from, to \in Paths : Rename(from, to)
     \/ ret'.op = "end" /\ Ends

Spec == Init /\ [][Next]_specvars
=============================================================================
