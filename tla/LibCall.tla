------------------------------ MODULE LibCall ------------------------------
(***************************************************************************)
(* The library's calls (libstars.c) as threads make them: the one flag     *)
(* that lets one of them in, the one run it fills in, the arena it takes   *)
(* memory and gives output from, and the way out of it, the same whether   *)
(* the call came to its end or was given up with a longjmp from anywhere   *)
(* inside.  What the game does meanwhile is in Callbacks and DosFiles:     *)
(* here it takes memory, says things, and ends somehow.                    *)
(*                                                                         *)
(* An address is a number; an arena is a range of them, and only where its *)
(* free part begins is kept.                                               *)
(***************************************************************************)
EXTENDS Naturals, FiniteSets

CONSTANTS
  Threads,
  Arenas,
  Start, End,  \* the first byte of each arena and the first past it
  LOG_CAP,
  GuestSize,   \* what the game's address space takes from the back
  Sizes,       \* BOUND: what is taken from the front at once
  Errors       \* BOUND: how a call may fail; here one failure is as another

ASSUME LibConstants ==
  /\ Start \in [Arenas -> Nat \ {0}] /\ End \in [Arenas -> Nat]
  /\ \A a \in Arenas : Start[a] <= End[a]
  /\ {LOG_CAP, GuestSize} \subseteq Nat /\ Sizes \subseteq Nat \ {0}

VARIABLES
  pc,      \* where each thread is
  rc,      \* what its call answers, or answered last
  arena,   \* the arena it was handed; two threads may hand in one
  logs,    \* whether it was given somewhere to put its log
  busy,    \* the flag
    \* `run` is not NULL
  run,     \* the run, or NoRun when `run` is NULL
  beg,     \* where the free part of each arena begins
  fpu,     \* each thread's floating point: the host's or the guest's
  handed,  \* history: the ranges calls gave their callers and these still hold
  entry    \* history: beg of the arena of the call inside, when it was let in

vars == <<pc, rc, arena, logs, busy, run, beg, fpu, handed, entry>>

\* `log` is 0 for NULL.
NoRun == [beg |-> 0, end |-> 0, log |-> 0, loglen |-> 0, fpu |-> FALSE]

Working == {"front", "built", "playing", "played"}
Inside == Working \cup {"let in", "leaving", "left", "forgotten"}

Goes(t, where) == pc' = [pc EXCEPT ![t] = where]

-----------------------------------------------------------------------------
(* enter                                                                   *)

\* A call whose arguments are refused does nothing, and is left out.
Call(t) ==
  /\ pc[t] = "idle"
  /\ \E a \in Arenas : arena' = [arena EXCEPT ![t] = a]
  /\ \E wants \in BOOLEAN : logs' = [logs EXCEPT ![t] = wants]
  /\ Goes(t, "called")
  /\ UNCHANGED <<rc, busy, run, beg, fpu, handed, entry>>

TestAndSet(t) ==
  /\ pc[t] = "called"
  /\ busy' = TRUE
  /\ \/ /\ busy
        /\ rc' = [rc EXCEPT ![t] = "EBUSY"]
        /\ Goes(t, "idle")
        /\ UNCHANGED entry
     \/ /\ ~busy
        /\ Goes(t, "let in")
        /\ entry' = beg[arena[t]]
        /\ UNCHANGED rc
  /\ UNCHANGED <<arena, logs, run, beg, fpu, handed>>

SetUp(t) ==
  LET b == beg[arena[t]]
      e == End[arena[t]]
      fits == logs[t] /\ e - b >= LOG_CAP
  IN  /\ pc[t] = "let in"
      /\ run' = [beg |-> IF fits THEN b + LOG_CAP ELSE b, end |-> e,
                 log |-> IF fits THEN b ELSE 0, loglen |-> 0, fpu |-> FALSE]
      /\ Goes(t, "front")
      /\ UNCHANGED <<rc, arena, logs, busy, beg, fpu, handed, entry>>

-----------------------------------------------------------------------------
(* The work of a call.                                                     *)

Ends(t, how) == rc' = [rc EXCEPT ![t] = how] /\ Goes(t, "leaving")

\* lib_fail, from anywhere.
Fail(t) ==
  /\ pc[t] \in Working
  /\ \E e \in Errors : Ends(t, e)
  /\ UNCHANGED <<arena, logs, busy, run, beg, fpu, handed, entry>>

\* lib_alloc; running out is Fail.
Take(t, n) ==
  /\ pc[t] \in Working
  /\ n <= run.end - run.beg
  /\ run' = [run EXCEPT !.beg = @ + n]
  /\ UNCHANGED <<pc, rc, arena, logs, busy, beg, fpu, handed, entry>>

\* log_msg: what does not fit is not said.
Say(t) ==
  /\ pc[t] \in Working
  /\ run.log # 0 /\ run.loglen + 1 < LOG_CAP
  /\ run' = [run EXCEPT !.loglen = @ + 1]
  /\ UNCHANGED <<pc, rc, arena, logs, busy, beg, fpu, handed, entry>>

\* play: the game's address space is borrowed from the back.
Build(t) ==
  /\ pc[t] = "front"
  /\ run.end - run.beg >= GuestSize
  /\ run' = [run EXCEPT !.end = @ - GuestSize]
  /\ Goes(t, "built")
  /\ UNCHANGED <<rc, arena, logs, busy, beg, fpu, handed, entry>>

\* play: the guest's floating point is set up, and the loop begins.
PlayBegins(t) ==
  /\ pc[t] = "built"
  /\ fpu' = [fpu EXCEPT ![t] = "guest"]
  /\ run' = [run EXCEPT !.fpu = TRUE]
  /\ Goes(t, "playing")
  /\ UNCHANGED <<rc, arena, logs, busy, beg, handed, entry>>

PlayEnds(t) ==
  /\ pc[t] = "playing"
  /\ fpu' = [fpu EXCEPT ![t] = "host"]
  /\ run' = [run EXCEPT !.fpu = FALSE]
  /\ Goes(t, "played")
  /\ UNCHANGED <<rc, arena, logs, busy, beg, handed, entry>>

\* The game's end was good and the files that were wanted are there, or not.
\* stars_init does its work in front and plays nothing.
Finish(t) ==
  /\ pc[t] \in {"front", "played"}
  /\ \E how \in Errors \cup {"OK"} : Ends(t, how)
  /\ UNCHANGED <<arena, logs, busy, run, beg, fpu, handed, entry>>

-----------------------------------------------------------------------------
(* leave                                                                   *)

\* A mistake it could have made: the arena is taken as far as the run reached.
LeftBegAsReached(was, how) == run.beg

LeftBeg(was, how) ==
  IF how = "OK" THEN run.beg
  ELSE IF run.log # 0 THEN run.log + run.loglen ELSE was

FpuLeft(t) == IF run.fpu THEN "host" ELSE fpu[t]

\* A mistake it could have made: the machine is let go before the answer is there.
LeaveTooSoon(t) ==
  LET a == arena[t]
      given == IF rc[t] = "OK" THEN [arena |-> a, lo |-> entry, hi |-> run.beg]
               ELSE [arena |-> a, lo |-> run.log, hi |-> run.log + run.loglen]
  IN  /\ pc[t] = "leaving"
      /\ beg' = [beg EXCEPT ![a] = LeftBeg(@, rc[t])]
      /\ fpu' = [fpu EXCEPT ![t] = FpuLeft(t)]
      /\ handed' = handed \cup {r \in {given} : r.lo < r.hi}
      /\ busy' = FALSE
      /\ Goes(t, "left")
      /\ UNCHANGED <<rc, arena, logs, run, entry>>

\* The output is in front of what is left, and so is the log of a call that
\* failed.
Leave(t) ==
  LET a == arena[t]
      given == IF rc[t] = "OK" THEN [arena |-> a, lo |-> entry, hi |-> run.beg]
               ELSE [arena |-> a, lo |-> run.log, hi |-> run.log + run.loglen]
  IN  /\ pc[t] = "leaving"
      /\ beg' = [beg EXCEPT ![a] = LeftBeg(@, rc[t])]
      /\ fpu' = [fpu EXCEPT ![t] = FpuLeft(t)]
      /\ handed' = handed \cup {r \in {given} : r.lo < r.hi}
      /\ Goes(t, "left")
      /\ UNCHANGED <<rc, arena, logs, busy, run, entry>>

\* What the run held is not looked at again: enter clears it.
Forget(t) ==
  /\ pc[t] = "left"
  /\ run' = NoRun
  /\ Goes(t, "forgotten")
  /\ UNCHANGED <<rc, arena, logs, busy, beg, fpu, handed, entry>>

\* A mistake it could have made: a failed call stays busy.
BusyAfterFailure(t) == rc[t] # "OK"

\* The flag is cleared last of all, however the call went.
StaysBusy(t) == FALSE

Clear(t) ==
  /\ pc[t] = "forgotten"
  /\ busy' = StaysBusy(t)
  /\ Goes(t, "idle")
  /\ UNCHANGED <<rc, arena, logs, run, beg, fpu, handed, entry>>

-----------------------------------------------------------------------------
\* The caller is done with what an arena holds, and puts beg back.  It does
\* so while none of its calls has the arena.
Reclaim(a) ==
  /\ \A t \in Threads : arena[t] = a => pc[t] \notin Inside
  /\ beg' = [beg EXCEPT ![a] = Start[a]]
  /\ handed' = {r \in handed : r.arena # a}
  /\ UNCHANGED <<pc, rc, arena, logs, busy, run, fpu, entry>>

Init ==
  /\ pc = [t \in Threads |-> "idle"]
  /\ rc = [t \in Threads |-> "OK"]
  /\ arena \in [Threads -> Arenas] /\ logs = [t \in Threads |-> FALSE]
  /\ busy = FALSE /\ run = NoRun
  /\ beg = Start
  /\ fpu = [t \in Threads |-> "host"]
  /\ handed = {}
  /\ entry = 0

InCall(t) ==
  \/ TestAndSet(t) \/ SetUp(t)
  \/ Fail(t) \/ (\E n \in Sizes : Take(t, n)) \/ Say(t)
  \/ Build(t) \/ PlayBegins(t) \/ PlayEnds(t) \/ Finish(t)
  \/ Leave(t) \/ Forget(t) \/ Clear(t)

Next == (\E t \in Threads : Call(t) \/ InCall(t)) \/ (\E a \in Arenas : Reclaim(a))

\* A thread in a call goes on with it: that the game itself comes to an end
\* is PlayComesBack of Callbacks.
Spec == Init /\ [][Next]_vars /\ \A t \in Threads : WF_vars(InCall(t))

-----------------------------------------------------------------------------
TypeOK ==
  /\ pc \in [Threads -> {"idle", "called"} \cup Inside]
  /\ rc \in [Threads -> Errors \cup {"OK", "EBUSY"}]
  /\ arena \in [Threads -> Arenas] /\ logs \in [Threads -> BOOLEAN] /\ busy \in BOOLEAN
  /\ run \in [beg : Nat, end : Nat, log : Nat, loglen : 0 .. LOG_CAP, fpu : BOOLEAN]
  /\ run.beg <= run.end
  /\ \A a \in Arenas : beg[a] \in Start[a] .. End[a]
  /\ fpu \in [Threads -> {"host", "guest"}]

\* stars.h:35: one call at a time.  A thread that is inside has the flag, is
\* alone there, and the run is the one it set up in its own arena, until it
\* has let go of it.
OneCallAtATime ==
  \A t \in Threads : pc[t] \in Inside =>
    /\ busy
    /\ \A u \in Threads \ {t} : pc[u] \notin Inside
    /\ pc[t] \in Working \cup {"leaving", "left"} =>
         /\ run # NoRun
         /\ run.beg \in entry .. End[arena[t]]

\* stars.h:29-31: what a call gave its caller stays the caller's: no later
\* call is given any of it, and none takes memory below its end.
OutputsStay ==
  /\ \A r \in handed : Start[r.arena] <= r.lo /\ r.hi <= beg[r.arena]
  /\ \A r, s \in handed : r # s /\ r.arena = s.arena => r.hi <= s.lo \/ s.hi <= r.lo
  /\ \A t \in Threads : pc[t] \in Working =>
       \A r \in handed : r.arena = arena[t] => r.hi <= run.beg

\* stars.h:31-33: a call that fails leaves the arena as it was but for its
\* log, and one that is told to wait leaves everything.
FailureLeavesArena ==
  [][\A t \in Threads : pc[t] # "idle" /\ pc'[t] # pc[t] /\ rc'[t] \notin {"OK"} =>
       \/ beg' = beg
       \/ /\ logs[t] /\ pc[t] = "leaving"
          /\ beg' = [beg EXCEPT ![arena[t]] = entry + run.loglen]]_vars

\* Whatever the call was doing when it was given up, the thread gets its own
\* floating point back.
HostFpuBack == \A t \in Threads : pc[t] = "idle" => fpu[t] = "host"

\* The machine is free again after every call, a failed one too.
FlagComesBack == busy ~> ~busy

(* A call as a whole: it is the only one in its arena, what was handed out *)
(* before it is as it was, and the host computes as before.                *)
CallsSound == TypeOK /\ OneCallAtATime /\ OutputsStay /\ HostFpuBack

=============================================================================
