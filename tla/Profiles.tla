------------------------------ MODULE Profiles ------------------------------
(* api_profile.c: the settings file beside the executable, read and rewritten
   whole by the guest's three calls.  A file is the sequence of its lines: a
   heading, a pair, or anything else.  A value is told apart by its length.
   The rewriting goes through a temporary file, and the program may end, and
   the system refuse, between any two of its steps. *)
EXTENDS Naturals, FiniteSets, Sequences, SequencesExt

CONSTANTS
    None,               \* no file, no key, no value
    Sections, Keys,     \* the names of sections and of keys, apart from case
    Special,            \* the key the emulator presets (GlobalSettings)
    Layout,             \* the section and the key with a default of their own
    Values,             \* the lengths a value may have
    LINE,               \* what of a value the copy of its line has room for
    VALUE,              \* the room for a value being read
    PRESET, LARGE,      \* GLOBAL_SETTINGS_PRESET and LAYOUT_LARGE
    Names, PathRoom,    \* the file names of the guest, the room for a path
    ExeDir,             \* the length of the directory of the executable
    FirstFiles,         \* the files there may be when the program starts
    MostWrites, MostFaults

Refused == "refused"
Own == "Stars.ini"

ASSUME ProfileAssumption ==
    /\ Special \in Keys /\ Layout \in Sections \X Keys
    /\ Values \subseteq Nat /\ LINE \in Nat /\ VALUE \in Nat
    /\ \A n \in Names : n.kind \in {"none", "bare", "absolute"} /\ n.length \in Nat

VARIABLES ini,      \* ini[p]: the lines of the file at p, or None
          tmp,      \* tmp[p]: those of the file with .tmp after its name
          job,      \* the write in progress
          prompt,   \* prompt_serial
          wanted,   \* wanted[p]: the settings as the writes that succeeded left them
          due,      \* due[p]: as the write last begun leaves them
          lost,     \* a fault took settings with it
          writes, faults

profileVars == <<ini, tmp, job, prompt, wanted, due, lost, writes, faults>>

Heading(s) == [kind |-> "heading", section |-> s]
PairLine(k, v) == [kind |-> "pair", key |-> k, value |-> v]
Shorter(a, b) == IF a < b THEN a ELSE b

(* ini_path: no name is the game's own file, a bare one lies beside the
   executable, an absolute one is taken as it is; what does not fit is refused. *)
Placed(n) ==
    IF n.kind = "absolute"
    THEN IF n.length < PathRoom THEN n.path ELSE Refused
    ELSE IF ExeDir + 1 + n.length + 1 > PathRoom THEN Refused
    ELSE IF n.kind = "none" THEN Own ELSE n.path

IniPaths == {Placed(n) : n \in Names} \ {Refused}

(* ini_get: the first line of the key in any section of that name. *)
GetLine(s, k, st, line) ==
    IF st.value # None THEN st
    ELSE IF line.kind = "heading" THEN [st EXCEPT !.inside = line.section = s]
    ELSE IF st.inside /\ line.kind = "pair" /\ line.key = k
         THEN [st EXCEPT !.value = Shorter(line.value, VALUE)]
    ELSE st

IniGet(file, s, k) ==
    IF file = None THEN None
    ELSE FoldLeft(LAMBDA st, line : GetLine(s, k, st, line),
                  [inside |-> FALSE, value |-> None], file).value

(* What the copy of a line that is only passed on has room for. *)
Copied(line) == IF line.kind = "pair"
                THEN [line EXCEPT !.value = Shorter(@, LINE)] ELSE line

(* The loop of ini_set over the lines of the old file, for the write w. *)
AppendPair(w, st) ==
    [st EXCEPT !.out = Append(@, PairLine(w.key, w.value)), !.wrote = TRUE]

Sets(w) == w.key # None /\ w.value # None

\* A mistake it could have made: that a key was written on leaving the section is forgotten.
AtHeadingBlind(w, st, line) ==
    LET inside == line.section = w.section
    IN  [st EXCEPT !.inside = inside, !.seen = @ \/ inside,
                   !.out = IF inside /\ w.key = None THEN @ ELSE Append(@, line)]

AtHeading(w, st, line) ==
    LET left   == IF st.inside /\ Sets(w) /\ ~st.wrote THEN AppendPair(w, st) ELSE st
        inside == line.section = w.section
    IN  [left EXCEPT !.inside = inside, !.seen = @ \/ inside,
                     !.out = IF inside /\ w.key = None THEN @ ELSE Append(@, line)]

SetLine(w, st, line) ==
    IF line.kind = "heading" THEN AtHeading(w, st, line)
    ELSE IF st.inside /\ w.key = None THEN st
    ELSE IF st.inside /\ line.kind = "pair" /\ line.key = w.key
         THEN IF w.value = None THEN st ELSE AppendPair(w, st)
    ELSE [st EXCEPT !.out = Append(@, Copied(line))]

Rewritten(w) ==
    LET st == FoldLeft(LAMBDA s, line : SetLine(w, s, line),
                       [inside |-> FALSE, wrote |-> FALSE, seen |-> FALSE, out |-> <<>>],
                       w.text)
    IN  IF Sets(w) /\ ~st.wrote
        THEN AppendPair(w, IF st.seen THEN st
                           ELSE [st EXCEPT !.out = Append(@, Heading(w.section))]).out
        ELSE st.out

(* The answers: p_GetPrivateProfileString gives the buffer's contents and p_GetPrivateProfileInt
   the number; size is the room in the guest's buffer. *)
StringRead(p, s, k, default) ==
    LET got == IniGet(ini[p], s, k)
    IN  IF k = Special /\ prompt THEN 1
        ELSE IF got # None THEN got
        ELSE IF k = Special THEN PRESET ELSE default

StringAnswer(p, s, k, default, size) ==
    LET v == StringRead(p, s, k, default)
    IN  IF size > 0 /\ v > size - 1 THEN size - 1 ELSE v

IntAnswer(p, s, k, default) ==
    LET got == IniGet(ini[p], s, k)
    IN  IF got # None THEN got ELSE IF <<s, k>> = Layout THEN LARGE ELSE default

-----------------------------------------------------------------------------
NoSettings == [sk \in Sections \X Keys |-> None]
Settings(file) == [sk \in Sections \X Keys |-> IniGet(file, sk[1], sk[2])]
Idle == [at |-> "idle"]

ProfileInit ==
    /\ ini \in [IniPaths -> FirstFiles \cup {None}] /\ tmp = [p \in IniPaths |-> None]
    /\ job = Idle /\ prompt \in BOOLEAN
    /\ wanted = [p \in IniPaths |-> Settings(ini[p])] /\ due = wanted
    /\ lost = FALSE /\ writes = 0 /\ faults = 0

(* The settings once (s, k) is v: None removes a key, and no key the section. *)
WithSetting(old, s, k, v) ==
    [sk \in Sections \X Keys |->
        IF sk[1] = s /\ k = None THEN None
        ELSE IF sk = <<s, k>> THEN v ELSE old[sk]]

(* p_WritePrivateProfileString up to the reading of the file.  Without a key nothing looks
   at the value. *)
WriteSetting(n, s, k, v) ==
    /\ job = Idle /\ writes < MostWrites /\ writes' = writes + 1
    /\ job' = IF Placed(n) = Refused THEN job
              ELSE [at |-> "slurp", path |-> Placed(n), section |-> s, key |-> k,
                    value |-> IF k = None THEN None ELSE v, text |-> <<>>]
    /\ UNCHANGED <<ini, tmp, prompt, wanted, due, lost, faults>>

Faulty == faults < MostFaults /\ faults' = faults + 1

(* A file that is there but cannot be read is rewritten as if it were not. *)
Slurp ==
    /\ job.at = "slurp"
    /\ \/ /\ job' = [job EXCEPT !.at = "open",
                                !.text = IF ini[job.path] = None THEN <<>> ELSE ini[job.path]]
          /\ UNCHANGED <<lost, faults>>
       \/ /\ ini[job.path] # None /\ Faulty
          /\ job' = [job EXCEPT !.at = "open"] /\ lost' = TRUE
    /\ UNCHANGED <<ini, tmp, prompt, wanted, due, writes>>

(* Opening the temporary file empties what an earlier call may have left there. *)
OpenTmp ==
    /\ job.at = "open"
    /\ \/ /\ tmp' = [tmp EXCEPT ![job.path] = <<>>] /\ job' = [job EXCEPT !.at = "fill"]
          /\ lost' = (lost \/ (ini[job.path] = None /\ wanted[job.path] # NoSettings))
          /\ due' = [due EXCEPT ![job.path] =
                         WithSetting(wanted[job.path], job.section, job.key, job.value)]
          /\ UNCHANGED faults
       \/ Faulty /\ job' = Idle /\ UNCHANGED <<tmp, due, lost>>
    /\ UNCHANGED <<ini, prompt, wanted, writes>>

(* Nothing looks at whether the lines reached the disk. *)
Fill ==
    /\ job.at = "fill" /\ job' = [job EXCEPT !.at = "delete"]
    /\ \/ tmp' = [tmp EXCEPT ![job.path] = Rewritten(job)] /\ UNCHANGED <<lost, faults>>
       \/ /\ Faulty /\ lost' = TRUE
          /\ \E n \in 0 .. Len(Rewritten(job)) - 1 :
                 tmp' = [tmp EXCEPT ![job.path] = SubSeq(Rewritten(job), 1, n)]
    /\ UNCHANGED <<ini, prompt, wanted, due, writes>>

(* DeleteFileW, whose answer is not looked at either. *)
DeleteOld ==
    /\ job.at = "delete" /\ job' = [job EXCEPT !.at = "move"]
    /\ \/ ini' = [ini EXCEPT ![job.path] = None] /\ UNCHANGED faults
       \/ Faulty /\ UNCHANGED ini
    /\ UNCHANGED <<tmp, prompt, wanted, due, lost, writes>>

(* MoveFileW refuses while there is still a file of the name. *)
MoveNew ==
    /\ job.at = "move" /\ job' = Idle
    /\ \/ /\ ini[job.path] = None
          /\ ini' = [ini EXCEPT ![job.path] = tmp[job.path]]
          /\ tmp' = [tmp EXCEPT ![job.path] = None]
          /\ wanted' = [wanted EXCEPT ![job.path] = due[job.path]]
          /\ UNCHANGED faults
       \/ ini[job.path] # None /\ UNCHANGED <<ini, tmp, wanted, faults>>
       \/ ini[job.path] = None /\ Faulty /\ UNCHANGED <<ini, tmp, wanted>>
    /\ UNCHANGED <<prompt, due, lost, writes>>

(* The program ends in the middle; of the buffered lines any number are written. *)
EndInTheMiddle ==
    /\ job # Idle /\ Faulty /\ job' = Idle
    /\ IF job.at = "fill"
       THEN \E n \in 0 .. Len(Rewritten(job)) :
                tmp' = [tmp EXCEPT ![job.path] = SubSeq(Rewritten(job), 1, n)]
       ELSE UNCHANGED tmp
    /\ UNCHANGED <<ini, prompt, wanted, due, lost, writes>>

ProfileNext ==
    \/ \E n \in Names, s \in Sections, k \in Keys \cup {None}, v \in Values \cup {None} :
           WriteSetting(n, s, k, v)
    \/ Slurp \/ OpenTmp \/ Fill \/ DeleteOld \/ MoveNew \/ EndInTheMiddle
-----------------------------------------------------------------------------

(* A value reads as it was written, or as much of it as the copy of its line
   had room for when another key was written later. *)
Alike(got, was) ==
    \A sk \in Sections \X Keys :
        \/ got[sk] = was[sk]
        \/ was[sk] # None /\ got[sk] = Shorter(was[sk], LINE)

(* The lines the write w is not about. *)
Others(w, file) ==
    FoldLeft(LAMBDA st, line :
                 LET inside == IF line.kind = "heading" THEN line.section = w.section
                               ELSE st.inside
                     about  == /\ inside
                               /\ \/ w.key = None
                                  \/ line.kind = "pair" /\ line.key = w.key
                 IN  [inside |-> inside,
                      lines  |-> IF about THEN st.lines
                                 ELSE Append(st.lines, [line |-> Copied(line), inside |-> inside])],
             [inside |-> FALSE, lines |-> <<>>], file).lines

(* The guest's settings are what its successful writes left, whatever else is
   in the file (sections twice, headings without a name, comments), and a call
   that fails, or a program that ends in the middle, leaves either those or,
   whole in the temporary file, those of the write it broke off.  They are lost
   only where a file is there but cannot be read, the disk is full, or a write
   is begun while the temporary file is all there is. *)
SettingsKept ==
    ~lost => \A p \in IniPaths :
        \/ ini[p] # None /\ Alike(Settings(ini[p]), wanted[p])
        \/ ini[p] = None /\ wanted[p] = NoSettings
        \/ ini[p] = None /\ tmp[p] # None /\ Alike(Settings(tmp[p]), due[p])

(* The lines a write is not about keep their order and their section; all it
   may add to them is the heading of a section that was not there. *)
OthersInOrder ==
    ~lost /\ job.at \in {"delete", "move"} /\ tmp[job.path] # None =>
        Others(job, tmp[job.path]) \in
            {Others(job, job.text),
             Others(job, job.text) \o <<[line |-> Heading(job.section), inside |-> TRUE]>>}

(* Every answer comes out of those settings and fits the guest's buffer; one
   that is not there is the guest's default, or the emulator's own. *)
AnswersFromSettings ==
    job = Idle /\ ~lost => \A p \in IniPaths : ini[p] # None =>
        \A s \in Sections, k \in Keys, size \in 0 .. 2, default \in {0, 3} :
            LET was == wanted[p][<<s, k>>]
                got == StringAnswer(p, s, k, default, size)
            IN  /\ (size > 0 => got < size)
                /\ (k = Special /\ prompt => got \in {0, 1})
                /\ (size = 0 /\ k # Special /\ was = None => got = default)
                /\ (size = 0 /\ k # Special /\ was # None => got \in {was, Shorter(was, LINE)})
                /\ (was # None => IntAnswer(p, s, k, default) \in {was, Shorter(was, LINE)})
                /\ (was = None /\ <<s, k>> # Layout => IntAnswer(p, s, k, default) = default)

ProfilesRight == SettingsKept /\ OthersInOrder /\ AnswersFromSettings
=============================================================================
