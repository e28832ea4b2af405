----------------------------- MODULE Callbacks -----------------------------
(***************************************************************************)
(* One play of the game in the library: the interpreter's loop (cpu.c), the *)
(* calls the guest makes into the host (thunk_dispatch), the calls the host *)
(* makes back into the guest (call16_wndproc, thunk.c), the latch that      *)
(* carries a stop out through the host's frames, and the loop around it all *)
(* (play, libstars.c).                                                      *)
(*                                                                          *)
(* The host's stack alternates between a loop of the interpreter and the    *)
(* handler of a call that loop has entered.  `frames` holds the loops,      *)
(* play's own first and one for each call16 above it; `handlers` holds the  *)
(* handlers, each under the loop it has called back into, and the topmost   *)
(* loop is waiting for a handler exactly when there are as many of one as   *)
(* of the other.                                                            *)
(*                                                                          *)
(* What the guest's code does is a free choice.  Its registers and its      *)
(* stack are left out: whether the stack has room for one more callback is  *)
(* the guest's doing, and so is a choice too.                               *)
(***************************************************************************)
EXTENDS Naturals, Sequences, SequencesExt

CONSTANTS MaxDepth,        \* callbacks inside callbacks that are allowed: 32
          Slice,           \* steps in one cpu_run: CHUNK and CALL16_NOTE
          Budget,          \* instructions the whole play may take
          CallsPerHandler  \* BOUND: callbacks one handler may make

ASSUME CallbackConstants ==
    /\ MaxDepth \in Nat
    /\ Slice \in Nat \ {0}
    /\ Budget \in Nat \ {0}
    /\ CallsPerHandler \in Nat

VARIABLES phase,           \* "idle" between plays, "running" inside one
          frames,          \* the loops of the interpreter, innermost last
          handlers,        \* callbacks each open handler may still make
          icount,          \* cpu.icount
          state,           \* cpu.state
          latched,         \* the stop that is on its way out, or None
          depth,           \* the counter in thunk.c
          boxed,           \* headless_msgboxes is not zero
          result,          \* what the last play answered
          first            \* history: the first stop of this play, or None

vars == <<phase, frames, handlers, icount, state, latched, depth, boxed,
          result, first>>

None == "None"
Fatal == {"HALT", "NOAPI", "BADOP", "FAULT"}
Stops == Fatal \cup {"STEPS", "RETURN"}

-----------------------------------------------------------------------------
(* The parts of the state the definitions below are about.                 *)

InHandler == Len(handlers) = Len(frames)
InGuest == Len(handlers) < Len(frames)

FirstStop(r) == IF first = None /\ r \in Fatal \cup {"STEPS"} THEN r ELSE first

\* cpu_stop_latch: the first reason is kept.
Latch(r) == IF latched # None THEN latched ELSE r

\* A mistake it could have made: the instruction count is restored with the rest of the machine.
KeptOfCaller(saved, ran) == saved

\* call16_wndproc keeps what a callback has run when it restores the rest.
Kept(saved, ran) == ran

\* A mistake it could have made: a halt is not latched.
MustLatchFaults(r) == r \in Fatal \ {"HALT"}

\* call16_wndproc, what has to reach the top although the host cannot carry it.
MustLatch(r) == r \in Fatal

\* The next slice of call16_wndproc's loop.
OverBudget(ran) == ran >= Budget

\* play, at the end: how the machine stopped, as the caller is told.
Answer(r, said) ==
    CASE r = "HALT"  -> "OK"
      [] r = "STEPS" -> "EHUNG"
      [] r = "NOAPI" -> "ECRASH"
      [] OTHER       -> IF said THEN "EGAME" ELSE "ECRASH"

Onto(f) == Front(frames) \o <<f>>

-----------------------------------------------------------------------------
(* What follows a step of the innermost loop: r is what the step answered   *)
(* and `ran` the instruction count it leaves.                              *)

\* play: another slice, or the end.
PlayLoop(r, ran) ==
    /\ icount' = ran
    /\ UNCHANGED <<latched, depth>>
    /\ \/ /\ r = "STEPS" /\ latched = None /\ ~OverBudget(ran)
          /\ frames' = Onto([n |-> 0, saved |-> 0])
          /\ state' = "RUNNING"
          /\ UNCHANGED <<phase, result, first>>
       \/ /\ r # "STEPS" \/ latched # None \/ OverBudget(ran)
          /\ phase' = "idle"
          /\ result' = Answer(r, boxed)
          /\ frames' = << >>
          /\ state' = r
          /\ first' = FirstStop(r)

\* call16_wndproc: another slice, or back to the handler that called, with
\* the machine as it was but for what it has run.
CallbackLoop(r, ran) ==
    /\ state' = "RUNNING"
    /\ UNCHANGED <<phase, result>>
    /\ \/ /\ r = "STEPS" /\ ~OverBudget(ran)
          /\ frames' = Onto([Last(frames) EXCEPT !.n = 0])
          /\ icount' = ran
          /\ UNCHANGED <<latched, depth, first>>
       \/ /\ r # "STEPS" \/ OverBudget(ran)
          /\ latched' = IF r = "STEPS" \/ MustLatch(r) THEN Latch(r) ELSE latched
          /\ first' = FirstStop(r)
          /\ frames' = Front(frames)
          /\ depth' = depth - 1
          /\ icount' = Kept(Last(frames).saved, ran)

\* cpu_run: a step that answered anything but RUNNING ends it, and so does
\* the last step of the slice, whatever may be latched by then.
StepEnds(r, ran) ==
    LET ended == IF r = "RUNNING" THEN "STEPS" ELSE r
    IN  \/ /\ r # "RUNNING" \/ Last(frames).n + 1 >= Slice
           /\ IF Len(frames) = 1 THEN PlayLoop(ended, ran)
                                 ELSE CallbackLoop(ended, ran)
        \/ /\ r = "RUNNING" /\ Last(frames).n + 1 < Slice
           /\ frames' = Onto([Last(frames) EXCEPT !.n = @ + 1])
           /\ icount' = ran
           /\ state' = "RUNNING"
           /\ UNCHANGED <<phase, latched, depth, result, first>>

-----------------------------------------------------------------------------
(* A play begins.                                                           *)

\* What call16_init leaves of the nesting an abandoned play left behind.
DepthAtStart == 0

\* What cpu_stop_clear leaves of the stop that ended the play before.
LatchAtStart == None

Reset ==
    /\ latched' = LatchAtStart
    /\ depth' = DepthAtStart
    /\ boxed' = FALSE
    /\ icount' = 0
    /\ first' = None
    /\ handlers' = << >>
    /\ state' = "RUNNING"

Play ==
    /\ phase = "idle"
    /\ Reset
    /\ phase' = "running"
    /\ frames' = << [n |-> 0, saved |-> 0] >>
    /\ UNCHANGED result

\* The game's address space, the loader's tables or the module itself may
\* not be had, and then nothing has run.
PlayFails ==
    /\ phase = "idle"
    /\ \/ result' = "ENOMEM" /\ UNCHANGED <<latched, depth, boxed, icount, first,
                                            handlers, state>>
       \/ result' \in {"ENOMEM", "ECRASH"} /\ Reset
    /\ UNCHANGED <<phase, frames>>

-----------------------------------------------------------------------------
(* The guest runs.                                                          *)

\* An instruction, or a call into the host whose handler neither calls back
\* nor gives up: on it goes, or it halts, or it cannot be executed, or it
\* touches what is not there, or there is no handler for it.
Instruction ==
    /\ InGuest /\ latched = None
    /\ \E r \in Fatal \cup {"RUNNING"} : StepEnds(r, icount + 1)
    /\ UNCHANGED <<handlers, boxed>>

\* MessageBox: the game is answered, and what it said is remembered.
SaysWhy ==
    /\ InGuest /\ latched = None
    /\ StepEnds("RUNNING", icount + 1)
    /\ boxed' = TRUE
    /\ UNCHANGED handlers

\* The guest comes to the return selector: the callback is over.  Nothing
\* compares the depth that was pushed with the depth it is now.
ReturnReached ==
    /\ InGuest /\ latched = None
    /\ StepEnds("RETURN", icount + 1)
    /\ UNCHANGED <<handlers, boxed>>

\* A stop is on its way out: nothing runs, and the loop is handed the stop.
HandedTheStop ==
    /\ InGuest /\ latched # None
    /\ StepEnds(latched, icount)
    /\ UNCHANGED <<handlers, boxed>>

\* thunk_dispatch, into a handler that may call back.
EnterHandler ==
    /\ InGuest /\ latched = None
    /\ handlers' = Append(handlers, CallsPerHandler)
    /\ icount' = icount + 1
    /\ UNCHANGED <<phase, frames, state, latched, depth, boxed, result, first>>

\* A handler that gives the whole play up: lib_fail, from a dialog nobody can
\* answer, a wait for input that will not come, or an arena that is full.
GiveUp(e) ==
    /\ InGuest /\ latched = None
    /\ phase' = "idle"
    /\ result' = e
    /\ frames' = << >>
    /\ handlers' = << >>
    /\ icount' = icount + 1
    /\ UNCHANGED <<state, latched, depth, boxed, first>>

-----------------------------------------------------------------------------
(* A handler runs.                                                          *)

OneCallLess == [handlers EXCEPT ![Len(handlers)] = @ - 1]

CallBack ==
    /\ InHandler /\ Last(handlers) > 0
    /\ depth < MaxDepth
    /\ depth' = depth + 1
    /\ frames' = Append(frames, [n |-> 0, saved |-> icount])
    /\ handlers' = OneCallLess
    /\ state' = "RUNNING"
    /\ UNCHANGED <<phase, icount, latched, boxed, result, first>>

\* Too deep, or no room on the guest's stack, which may be so at any depth:
\* the handler is answered 0 at once.
CallBackRefused ==
    /\ InHandler /\ Last(handlers) > 0
    /\ latched' = Latch("FAULT")
    /\ first' = FirstStop("FAULT")
    /\ handlers' = OneCallLess
    /\ UNCHANGED <<phase, frames, icount, state, depth, boxed, result>>

\* The rest of thunk_dispatch: the far return the real entry would have done.
HandlerReturns ==
    /\ InHandler
    /\ handlers' = Front(handlers)
    /\ StepEnds(state, icount)
    /\ UNCHANGED boxed

-----------------------------------------------------------------------------
Init ==
    /\ phase = "idle" /\ result = None
    /\ frames = << >> /\ handlers = << >>
    /\ icount = 0 /\ state = "RUNNING" /\ depth = 0 /\ boxed = FALSE
    /\ latched = None /\ first = None

InPlay ==
    /\ phase = "running"
    /\ \/ Instruction \/ SaysWhy \/ ReturnReached \/ HandedTheStop
       \/ EnterHandler
       \/ \E e \in {"EGAME", "EHUNG", "ENOMEM"} : GiveUp(e)
       \/ CallBack \/ CallBackRefused \/ HandlerReturns

Next == Play \/ PlayFails \/ InPlay

\* A play once begun is carried on: play is called and does not return to its
\* caller before it is over.  Nothing says that another play is begun.
Spec == Init /\ [][Next]_vars /\ WF_vars(InPlay)

-----------------------------------------------------------------------------
TypeOK ==
    /\ phase \in {"idle", "running"}
    /\ frames \in Seq([n : 0 .. Slice - 1, saved : Nat])
    /\ handlers \in Seq(0 .. CallsPerHandler)
    /\ Len(frames) - Len(handlers) \in {0, 1}
    /\ icount \in Nat
    /\ state \in Stops \cup {"RUNNING"}
    /\ latched \in Fatal \cup {"STEPS", None}
    /\ depth \in 0 .. MaxDepth
    /\ boxed \in BOOLEAN
    /\ result \in {None, "OK", "EHUNG", "ECRASH", "EGAME", "ENOMEM"}

\* cpu.h:91-96: once something has stopped the machine, no further guest
\* instruction runs in this play, although the host's handlers go on, call
\* back again and are refused.
NothingRunsAfterAStop ==
    [][phase = "running" /\ first # None => icount' <= icount]_vars

\* A play that stopped is reported as what stopped it first: by that reason,
\* or, when the stop and the end of a slice meet, as one that ran too long.
\* Never as a success, unless the program said it was finished.
FirstStopReported ==
    [][phase = "running" /\ phase' = "idle" /\ first # None
        => result' \in {Answer(first, boxed), "EHUNG"}]_vars

\* A stop holds through whatever loops it passes: nothing more runs, and what is
\* reported at the top is that stop.
StopsHold == []TypeOK /\ NothingRunsAfterAStop /\ FirstStopReported

\* cpu.h:91-96: the same reason reaches every loop, and one report comes out
\* at the top: a play is never reported as one that ran too long when its
\* first stop was another.
SameReasonAtTheTop ==
    [][phase = "running" /\ phase' = "idle" /\ first # None
        => result' = Answer(first, boxed)]_vars

\* Every play comes back to its caller: the budget ends a guest that never
\* stops, through whatever callbacks it is inside.
PlayComesBack == phase = "running" ~> phase = "idle"

============================================================================
