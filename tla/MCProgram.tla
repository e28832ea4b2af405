----------------------------- MODULE MCProgram -----------------------------
(***************************************************************************)
(* The guest at its loop, for TLC: callbacks and stops, the message loop,   *)
(* and the procedures of the windows, one at a time.  The first state       *)
(* chooses which, the variables of the others never change.                *)
(***************************************************************************)
EXTENDS Callbacks, MessageLoop, GuestWindows

VARIABLE part

MCVars == <<part, vars, loopVars, winVars>>

\* A loop that has been told of its quit: nothing of it is enabled.
LoopOver ==
    /\ posted = << >> /\ input = << >> /\ quit = FALSE /\ arrived = 0
    /\ at = Idle /\ asked = [filter |-> {}, how |-> "none"]
    /\ told = "quit" /\ quitTold = TRUE

MCInit ==
    /\ part \in {"callbacks", "loop", "windows"}
    /\ Init /\ WindowsInit
    /\ IF part = "loop" THEN LoopInit ELSE LoopOver

MCNext ==
    /\ UNCHANGED part
    /\ \/ part = "callbacks" /\ Next /\ UNCHANGED <<loopVars, winVars>>
       \/ part = "loop" /\ LoopStep /\ UNCHANGED <<vars, winVars>>
       \/ part = "windows" /\ WindowStep /\ UNCHANGED <<vars, loopVars>>

\* What is not chosen has nothing enabled that would have to happen.
MCSpec == MCInit /\ [][MCNext]_MCVars /\ WF_vars(InPlay) /\ LoopRuns /\ DialogsRun
=============================================================================
